---- MODULE Spec2Model ----
(***************************************************************************)
(* Model of the FUME mapping provider's synchronisation engine:            *)
(* FumeMappingProvider (cache, incremental diff-and-apply, file poller,    *)
(* server poller, forced resync, focused refresh) together with the        *)
(* UserMappingProvider / AliasProvider source adapters it calls.           *)
(*                                                                         *)
(* A JavaScript Map is a TLA+ function whose DOMAIN is the set of keys     *)
(* present.  A nullable value is a sequence of length 0 (null/undefined)   *)
(* or 1.  File paths and resource URLs are pairs <<kind, key>>.            *)
(***************************************************************************)
EXTENDS Integers, FiniteSets, Sequences, TLC

\* ------------------------------------------------------------------------
\* Bounds of the model
\* ------------------------------------------------------------------------
\* last value of the server's write counter (the resources present at the
\* start are write 1)
MaxServerWrites == 3
\* last value of the file-system clock (every file write or unlink takes a
\* fresh modification instant)
MaxFsClock == 3

\* mapping names: "alpha" is valid everywhere, "b_1" is a valid server id
\* but not a valid file mapping name (underscore)
Keys == {"alpha", "b_1"}
\* names of the text mapping files that are written or unlinked while the
\* provider runs (a file b_1.fume, whose name is invalid, just sits there)
FileKeys == {"alpha"}
\* ids of the StructureMaps that are written or deleted on the server while
\* the provider runs (the StructureMap b_1 just sits there)
ServerKeys == {"alpha"}
\* file / resource contents
Contents == {"X", "Y"}
\* ids of the alias ConceptMaps that are written or deleted on the server,
\* and the texts of aliases.json: "a1" and "a2" are JSON objects, "bad" is
\* not valid JSON
AliasIds == {"cm1", "cm2"}
AliasTexts == {"a1", "a2", "bad"}
\* names of the *.json mapping files that are written or unlinked while the
\* provider runs, and their texts: "ab" and "ba" hold the same object with
\* its keys in a different order, "c" holds another object
JsonKeys == {"alpha"}
JsonTexts == {"ab", "ba", "c"}

Null == << >>
Some(x) == <<x>>

Undefined == 0

MapSet(m, k, v) == [x \in (DOMAIN m) \cup {k} |-> IF x = k THEN v ELSE m[x]]
MapDelete(m, k) == [x \in (DOMAIN m) \ {k} |-> m[x]]
MapGet(m, k) == IF k \in DOMAIN m THEN Some(m[k]) ELSE Null
EmptyMap == [x \in {} |-> Null]

\* ------------------------------------------------------------------------
\* State
\* ------------------------------------------------------------------------
VARIABLES
  \* --- the three backing stores (environment) ---
  mapFiles,              \* text mapping files: key -> [content, mtimeMs]
  jsonFiles,             \* *.json mapping files: key -> [raw, mtimeMs]
  fsClock,               \* file-system modification clock
  srvMaps,               \* StructureMaps on the server: id -> [expression, versionId, lastUpdated]
  aliasFile,             \* aliases.json: Null or Some([text, mtimeMs])
  aliasMaps,             \* alias ConceptMaps on the server: id -> [element, versionId, lastUpdated]
  now,                   \* number of writes the server has seen so far
  \* --- configuration ---
  aliasConceptMapId,     \* config.aliasConceptMapId: Null, or Some(id) when pinned
  \* --- FumeMappingProvider fields ---
  phase,                 \* "unconstructed" before new FumeMappingProvider(config), "rejected"
                         \* when the constructor threw; "constructed" until initialize() has
                         \* run, then "running"
  userMappingsCache,
  jsonMappingRawCache,
  serverMappingsMeta,
  filePollingState,
  lastServerPollAt,
  serverAliases,
  fileAliases,
  aliasResourceId,
  aliasResourceMeta,
  aliasesCacheWithMetadata

VARIABLES
  \* --- automatic change tracking ---
  config,                \* [filePollingIntervalMs, serverPollingIntervalMs, forcedResyncIntervalMs:
                         \*  Null or Some(ms); mappingsFolder, fhirClient: configured or not;
                         \*  fileExtension: Null or Some(text), a text being a sequence of characters]
  filePollingTimer,      \* Null or Some(interval of the running timer)
  serverPollingTimer,
  forcedResyncTimer,
  filePollInProgress,    \* the in-flight flag of each driver
  serverPollInProgress,
  resyncInProgress,
  inFlight               \* driver -> number of tick bodies started and not yet ended

VARIABLES
  \* --- package mappings ---
  packages,              \* the StructureMaps of the installed packages, in lookup order
  packageMappingCall     \* Null, or the last getPackageMapping call: [identifier, fails, result]

VARIABLES
  \* --- alias conversion ---
  aliasObject,           \* the alias object handed to aliasObjectToConceptMap
  convertedAliases       \* Null, or Some(the alias object read back from the ConceptMap)

VARIABLES
  \* --- a forced resync between its source read and its reconciliation ---
  pendingMappings        \* Null, or Some([mappings, jsonRawByKey]) that
                         \* refreshUserMappingsFromSources has read and not yet applied

VARIABLES
  \* --- the event loop's intervals ---
  activeIntervals        \* per driver, the setInterval timers not yet cleared

packageVars == <<packages, packageMappingCall>>
conversionVars == <<aliasObject, convertedAliases>>
timerVars == <<filePollingTimer, serverPollingTimer, forcedResyncTimer, activeIntervals>>
tickVars == <<filePollInProgress, serverPollInProgress, resyncInProgress, inFlight>>
mappingVars == <<userMappingsCache, jsonMappingRawCache, serverMappingsMeta>>
aliasVars == <<serverAliases, fileAliases, aliasResourceId, aliasResourceMeta,
               aliasesCacheWithMetadata>>
vars == <<mapFiles, jsonFiles, aliasFile, fsClock, srvMaps, aliasMaps, now,
          aliasConceptMapId,
          phase, userMappingsCache, jsonMappingRawCache, serverMappingsMeta,
          filePollingState, lastServerPollAt,
          serverAliases, fileAliases, aliasResourceId, aliasResourceMeta,
          aliasesCacheWithMetadata,
          config, filePollingTimer, serverPollingTimer, forcedResyncTimer,
          filePollInProgress, serverPollInProgress, resyncInProgress, inFlight,
          packages, packageMappingCall, aliasObject, convertedAliases,
          pendingMappings, activeIntervals>>

\* ------------------------------------------------------------------------
\* UserMappingProvider: key validation
\* ------------------------------------------------------------------------
\* KEY_REGEX /^[A-Za-z0-9_]+$/ over the modelled names
isValidKey(key) == key \in {"alpha", "b_1"}

\* KEY_REGEX, length <= 64 and FILE_MAPPING_KEY_REGEX /^[A-Za-z][A-Za-z0-9]*$/
isValidFileMappingKey(key) == isValidKey(key) /\ key \in {"alpha"}

isValidStaticJsonValueKey(key) == isValidKey(key) /\ key # "aliases"

isValidJsonMappingKey(key) == isValidStaticJsonValueKey(key)

isValidFileMappingKeyForPolling(key) == isValidFileMappingKey(key)

\* ------------------------------------------------------------------------
\* Entries
\* ------------------------------------------------------------------------
FileSource(key) == <<"fume", key>>
JsonSource(key) == <<"json", key>>
ServerSource(key) == <<"StructureMap", key>>

\* the parsed value of a JSON text: "ab" and "ba" are two serialisations
\* (key order) of the same object
JsonParse(raw) == IF raw \in {"ab", "ba"} THEN "obj1" ELSE "obj2"

\* stat().size of a file holding the given text
Size(text) == IF text \in {"X", "ab", "ba"} THEN 2 ELSE 3

FileMapping(key, expression) ==
  [key |-> key, expression |-> expression, sourceType |-> "file",
   source |-> FileSource(key), name |-> "undefined", url |-> "undefined"]

JsonMapping(key, raw) ==
  [key |-> key, expression |-> JsonParse(raw), sourceType |-> "file",
   source |-> JsonSource(key), name |-> "undefined", url |-> "undefined"]

ServerMapping(key, expression) ==
  [key |-> key, expression |-> expression, sourceType |-> "server",
   source |-> ServerSource(key), name |-> key, url |-> ServerSource(key)]

\* Instants.  The n-th write on the server happens at the odd instant
\* 2n - 1; the provider reads its clock (new Date()) at the even instant
\* after the last write so far, so a clock reading never coincides with a
\* write and lies strictly between the writes before and after it.
WriteInstant(n) == 2 * n - 1
ClockRead(n) == 2 * n

ResourceMeta(res) == [versionId |-> res.versionId, lastUpdated |-> res.lastUpdated]

Fingerprint(mtimeMs, text, key, isJson, isAliasFile) ==
  [mtimeMs |-> mtimeMs, size |-> Size(text), key |-> key,
   isJson |-> isJson, isAliasFile |-> isAliasFile]

AliasesPath == <<"json", "aliases">>

\* ------------------------------------------------------------------------
\* What one operation sees of the sources: E is a record
\*   [mapFiles, jsonFiles, aliasFile, srvMaps, aliasMaps, pinned, srvOk, dirOk, nf]
\* srvOk: the server answers; dirOk: the mappings folder can be listed;
\* nf: the status the server gives for an absent resource (404 or 410).
\* The provider's own fields travel as a record
\*   S = [cache, raw, meta, fps, serverAliases, fileAliases, aliasResourceId,
\*        aliasResourceMeta, aliases, log, result]
\* (userMappingsCache, jsonMappingRawCache, serverMappingsMeta,
\* filePollingState, the alias fields, the cache writes/deletes and file
\* reads of the current operation, and its return value).
\* ------------------------------------------------------------------------
Env(srvOk, dirOk, nf) ==
  [mapFiles |-> mapFiles, jsonFiles |-> jsonFiles, aliasFile |-> aliasFile,
   srvMaps |-> srvMaps, aliasMaps |-> aliasMaps, pinned |-> aliasConceptMapId,
   srvOk |-> srvOk, dirOk |-> dirOk, nf |-> nf]

Prov ==
  [cache |-> userMappingsCache, raw |-> jsonMappingRawCache,
   meta |-> serverMappingsMeta, fps |-> filePollingState,
   serverAliases |-> serverAliases, fileAliases |-> fileAliases,
   aliasResourceId |-> aliasResourceId, aliasResourceMeta |-> aliasResourceMeta,
   aliases |-> aliasesCacheWithMetadata,
   log |-> {}, result |-> Null]

\* ------------------------------------------------------------------------
\* UserMappingProvider: source adapters
\* ------------------------------------------------------------------------
loadServerMappings(E) ==
  IF ~E.srvOk THEN EmptyMap
  ELSE [k \in {id \in DOMAIN E.srvMaps : isValidKey(id)} |->
          ServerMapping(k, E.srvMaps[k].expression)]

loadFileMappings(E) ==
  IF ~E.dirOk THEN EmptyMap
  ELSE [k \in {f \in DOMAIN E.mapFiles : isValidFileMappingKey(f)} |->
          FileMapping(k, E.mapFiles[k].content)]

\* Faulty variant of loadMappings: on a collision the server entry wins.
loadMappings_serverWins(E) ==
  LET serverMappings == loadServerMappings(E)
      fileMappings == loadFileMappings(E)
  IN [k \in (DOMAIN serverMappings) \cup (DOMAIN fileMappings) |->
        IF k \in DOMAIN serverMappings THEN serverMappings[k] ELSE fileMappings[k]]

loadMappings(E) ==
  LET serverMappings == loadServerMappings(E)
      fileMappings == loadFileMappings(E)
  IN [k \in (DOMAIN serverMappings) \cup (DOMAIN fileMappings) |->
        IF k \in DOMAIN fileMappings THEN fileMappings[k] ELSE serverMappings[k]]

\* Faulty variant of loadFileMapping: the name of the file is not checked.
loadFileMapping_unchecked(E, key) ==
  IF key \in DOMAIN E.mapFiles THEN Some(FileMapping(key, E.mapFiles[key].content))
  ELSE Null

loadFileMapping(E, key) ==
  IF ~isValidFileMappingKey(key) THEN Null
  ELSE IF key \in DOMAIN E.mapFiles THEN Some(FileMapping(key, E.mapFiles[key].content))
  ELSE Null

loadJsonFileMapping(E, key) ==
  IF ~isValidJsonMappingKey(key) THEN Null
  ELSE IF key \in DOMAIN E.jsonFiles THEN Some(JsonMapping(key, E.jsonFiles[key].raw))
  ELSE Null

readJsonFileRaw(E, key) ==
  IF ~isValidJsonMappingKey(key) THEN Null
  ELSE IF key \in DOMAIN E.jsonFiles THEN Some(E.jsonFiles[key].raw)
  ELSE Null

searchServerMappings(E, lastUpdated) ==
  IF ~E.srvOk THEN [mappings |-> EmptyMap, metaByKey |-> EmptyMap]
  ELSE LET found == {id \in DOMAIN E.srvMaps :
                       /\ lastUpdated = Undefined \/ E.srvMaps[id].lastUpdated >= lastUpdated
                       /\ isValidKey(id)}
       IN [mappings |-> [k \in found |-> ServerMapping(k, E.srvMaps[k].expression)],
           metaByKey |-> [k \in found |-> ResourceMeta(E.srvMaps[k])]]

\* the remote client's conditional read: If-None-Match on the version tag
\* when one is cached, else If-Modified-Since, else an unconditional read
fhirConditionalRead(resources, nf, id, condition) ==
  IF id \notin DOMAIN resources THEN nf
  ELSE IF condition.versionId # Undefined
  THEN (IF condition.versionId = resources[id].versionId THEN 304 ELSE 200)
  ELSE IF condition.lastUpdated # Undefined
  THEN (IF resources[id].lastUpdated <= condition.lastUpdated THEN 304 ELSE 200)
  ELSE 200

conditionalReadServerMapping(E, key, condition) ==
  IF ~isValidKey(key) THEN [status |-> 0, mapping |-> Null, meta |-> Null]
  ELSE IF ~E.srvOk THEN [status |-> 0, mapping |-> Null, meta |-> Null]
  ELSE LET status == fhirConditionalRead(E.srvMaps, E.nf, key, condition)
       IN IF status = 200
          THEN [status |-> 200,
                mapping |-> Some(ServerMapping(key, E.srvMaps[key].expression)),
                meta |-> Some(ResourceMeta(E.srvMaps[key]))]
          ELSE [status |-> status, mapping |-> Null, meta |-> Null]

\* ------------------------------------------------------------------------
\* FumeMappingProvider: diff engine
\* ------------------------------------------------------------------------
isJsonFileMapping(mapping) ==
  mapping.sourceType = "file" /\ mapping.source[1] = "json"

\* Faulty variant of mappingsEquivalent: no two entries are ever equivalent.
mappingsEquivalent_never(raw, existing, incoming, incomingJsonRaw) == FALSE

mappingsEquivalent(raw, existing, incoming, incomingJsonRaw) ==
  IF existing.sourceType # incoming.sourceType THEN FALSE
  ELSE IF existing.source # incoming.source THEN FALSE
  ELSE IF existing.name # incoming.name THEN FALSE
  ELSE IF existing.url # incoming.url THEN FALSE
  ELSE IF isJsonFileMapping(incoming)
  THEN LET existingRaw == MapGet(raw, existing.key)
       IN IF existingRaw = Null \/ incomingJsonRaw = Null THEN FALSE
          ELSE existingRaw = incomingJsonRaw
  ELSE existing.expression = incoming.expression

applySingleMappingUpdate(S, key, mapping, jsonRaw) ==
  LET existing == MapGet(S.cache, key)
      shouldUpdate == IF existing = Null THEN TRUE
                      ELSE ~mappingsEquivalent(S.raw, existing[1], mapping, jsonRaw)
      S1 == IF shouldUpdate
            THEN [S EXCEPT !.cache = MapSet(S.cache, key, mapping),
                           !.log = S.log \cup {<<"set", key>>}]
            ELSE S
  IN IF isJsonFileMapping(mapping)
     THEN (IF jsonRaw # Null THEN [S1 EXCEPT !.raw = MapSet(S1.raw, key, jsonRaw[1])] ELSE S1)
     ELSE [S1 EXCEPT !.raw = MapDelete(S1.raw, key)]

\* Faulty variant of removeMapping: the revision metadata is left behind.
removeMapping_keepsMeta(S, key) ==
  [S EXCEPT !.cache = MapDelete(S.cache, key),
            !.raw = MapDelete(S.raw, key),
            !.log = S.log \cup {<<"delete", key>>}]

\* Faulty variant of removeMapping: the revision metadata of every key is
\* dropped.
removeMapping_dropsAllMeta(S, key) ==
  [S EXCEPT !.cache = MapDelete(S.cache, key),
            !.raw = MapDelete(S.raw, key),
            !.meta = EmptyMap,
            !.log = S.log \cup {<<"delete", key>>}]

\* cache.delete / raw.delete / meta.delete of one key
removeMapping(S, key) ==
  [S EXCEPT !.cache = MapDelete(S.cache, key),
            !.raw = MapDelete(S.raw, key),
            !.meta = MapDelete(S.meta, key),
            !.log = S.log \cup {<<"delete", key>>}]

RECURSIVE applyUpdates(_, _, _, _)
applyUpdates(S, mappings, jsonRawByKey, todo) ==
  IF todo = {} THEN S
  ELSE LET key == CHOOSE k \in todo : TRUE
       IN applyUpdates(applySingleMappingUpdate(S, key, mappings[key], MapGet(jsonRawByKey, key)),
                       mappings, jsonRawByKey, todo \ {key})

\* Faulty variant of applyRemovals: the removal pass is skipped.
applyRemovals_skipped(S, mappings, todo) == S

RECURSIVE applyRemovals(_, _, _)
applyRemovals(S, mappings, todo) ==
  IF todo = {} THEN S
  ELSE LET key == CHOOSE k \in todo : TRUE
       IN applyRemovals(IF key \notin DOMAIN mappings THEN removeMapping(S, key) ELSE S,
                        mappings, todo \ {key})

\* Faulty variant of applyMappingsIncrementally: the cache is emptied and
\* then filled from the target.
applyMappingsIncrementally_clearFirst(S, mappings, jsonRawByKey) ==
  LET S1 == applyRemovals(S, EmptyMap, DOMAIN S.cache)
  IN applyUpdates(S1, mappings, jsonRawByKey, DOMAIN mappings)

applyMappingsIncrementally(S, mappings, jsonRawByKey) ==
  LET S1 == applyUpdates(S, mappings, jsonRawByKey, DOMAIN mappings)
  IN applyRemovals(S1, mappings, DOMAIN S1.cache)

readJsonRawForMappings(E, mappings) ==
  [k \in {key \in DOMAIN mappings :
            isJsonFileMapping(mappings[key]) /\ readJsonFileRaw(E, key) # Null} |->
     readJsonFileRaw(E, k)[1]]

refreshUserMappingsFromSources(S, E) ==
  LET mappings == loadMappings(E)
  IN applyMappingsIncrementally(S, mappings, readJsonRawForMappings(E, mappings))

\* ------------------------------------------------------------------------
\* FumeMappingProvider: focused refresh of one key
\* ------------------------------------------------------------------------
\* Faulty variant of cachedOrNull: the key is evicted instead.
cachedOrNull_evicts(S, key) ==
  [S EXCEPT !.cache = MapDelete(S.cache, key),
            !.meta = MapDelete(S.meta, key),
            !.log = S.log \cup {<<"delete", key>>},
            !.result = Null]

\* return this.userMappingsCache.get(key) || null
cachedOrNull(S, key) == [S EXCEPT !.result = MapGet(S.cache, key)]

refreshUserMapping(S, E, key) ==
  LET jsonMapping == loadJsonFileMapping(E, key)
      fileMapping == loadFileMapping(E, key)
      condition == IF key \in DOMAIN S.meta THEN S.meta[key]
                   ELSE [versionId |-> Undefined, lastUpdated |-> Undefined]
      response == conditionalReadServerMapping(E, key, condition)
      Read(path) == [S EXCEPT !.log = S.log \cup {<<"read", path>>}]
  IN IF jsonMapping # Null
     THEN [applySingleMappingUpdate(Read(JsonSource(key)), key, jsonMapping[1],
                                    readJsonFileRaw(E, key))
             EXCEPT !.result = jsonMapping]
     ELSE IF fileMapping # Null
     THEN [applySingleMappingUpdate(Read(FileSource(key)), key, fileMapping[1], Null)
             EXCEPT !.result = fileMapping]
     ELSE IF response.status = 304
     THEN cachedOrNull(S, key)
     ELSE IF response.status = 200
     THEN (IF response.mapping # Null
           THEN [applySingleMappingUpdate(
                   [S EXCEPT !.meta = MapSet(S.meta, key, response.meta[1])],
                   key, response.mapping[1], Null)
                 EXCEPT !.result = response.mapping]
           ELSE [removeMapping(S, key) EXCEPT !.result = Null])
     ELSE IF response.status = 404 \/ response.status = 410
     THEN [removeMapping(S, key) EXCEPT !.result = Null]
     ELSE cachedOrNull(S, key)

\* ------------------------------------------------------------------------
\* Aliases: converters, AliasProvider, merged alias cache
\* ------------------------------------------------------------------------
builtInAliases == [k \in {"loinc"} |-> "http://loinc.org"]

\* ALIAS_KEY_REGEX /^[A-Za-z0-9_]+$/ over the modelled alias names
isValidAliasKey(key) == key \in {"k1", "k2", "loinc"}

\* conceptMap.group[].element[] as a sequence of <<code, target[0].code>>;
\* "" is the falsy code
RECURSIVE conceptMapToAliasObject(_)
conceptMapToAliasObject(element) ==
  IF element = << >> THEN EmptyMap
  ELSE LET n == Len(element)
           aliases == conceptMapToAliasObject(SubSeq(element, 1, n - 1))
           key == element[n][1]
           value == element[n][2]
       IN IF key # "" /\ value # "" THEN MapSet(aliases, key, value) ELSE aliases

\* typeof value === 'string'; "#7" stands for the JSON number 7
isStringValue(value) == value # "#7"

\* Faulty variant of filterInvalidAliases: one invalid entry rejects the
\* whole batch.
filterInvalidAliases_rejectsBatch(aliases) ==
  IF \E key \in DOMAIN aliases : ~(isValidAliasKey(key) /\ isStringValue(aliases[key]))
  THEN EmptyMap
  ELSE aliases

filterInvalidAliases(aliases) ==
  [k \in {key \in DOMAIN aliases : isValidAliasKey(key) /\ isStringValue(aliases[key])} |->
     aliases[k]]

\* JSON.parse of aliases.json: Null when the text is not valid JSON, else
\* the parsed object
AliasFileParse(text) ==
  IF text = "a1" THEN Some([k \in {"k1"} |-> "v1"])
  ELSE IF text = "a2"
  THEN Some([k \in {"k1", "bad-key", "k2"} |->
               IF k = "k1" THEN "v5" ELSE IF k = "k2" THEN "#7" ELSE "x"])
  ELSE Null

NoAliases == [aliases |-> EmptyMap, resourceId |-> Null, meta |-> Null]

\* Faulty variant of loadAliasesWithMetadata: of several candidates the
\* first is used.
loadAliasesWithMetadata_firstOfMany(E) ==
  IF ~E.srvOk THEN NoAliases
  ELSE IF E.pinned # Null
  THEN (IF E.pinned[1] \notin DOMAIN E.aliasMaps THEN NoAliases
        ELSE [aliases |-> conceptMapToAliasObject(E.aliasMaps[E.pinned[1]].element),
              resourceId |-> E.pinned,
              meta |-> Some(ResourceMeta(E.aliasMaps[E.pinned[1]]))])
  ELSE IF Cardinality(DOMAIN E.aliasMaps) = 0 THEN NoAliases
  ELSE LET id == CHOOSE i \in DOMAIN E.aliasMaps : TRUE
       IN [aliases |-> conceptMapToAliasObject(E.aliasMaps[id].element),
           resourceId |-> Some(id),
           meta |-> Some(ResourceMeta(E.aliasMaps[id]))]

loadAliasesWithMetadata(E) ==
  IF ~E.srvOk THEN NoAliases
  ELSE IF E.pinned # Null
  THEN (IF E.pinned[1] \notin DOMAIN E.aliasMaps THEN NoAliases
        ELSE [aliases |-> conceptMapToAliasObject(E.aliasMaps[E.pinned[1]].element),
              resourceId |-> E.pinned,
              meta |-> Some(ResourceMeta(E.aliasMaps[E.pinned[1]]))])
  ELSE IF Cardinality(DOMAIN E.aliasMaps) = 0 THEN NoAliases
  ELSE IF Cardinality(DOMAIN E.aliasMaps) > 1 THEN NoAliases
  ELSE LET id == CHOOSE i \in DOMAIN E.aliasMaps : TRUE
       IN [aliases |-> conceptMapToAliasObject(E.aliasMaps[id].element),
           resourceId |-> Some(id),
           meta |-> Some(ResourceMeta(E.aliasMaps[id]))]

conditionalReadAliases(E, resourceId, condition) ==
  IF ~E.srvOk THEN [status |-> 0, aliases |-> Null, resourceId |-> Null, meta |-> Null]
  ELSE LET status == fhirConditionalRead(E.aliasMaps, E.nf, resourceId, condition)
       IN IF status = 200
          THEN [status |-> 200,
                aliases |-> Some(conceptMapToAliasObject(E.aliasMaps[resourceId].element)),
                resourceId |-> Some(resourceId),
                meta |-> Some(ResourceMeta(E.aliasMaps[resourceId]))]
          ELSE [status |-> status, aliases |-> Null, resourceId |-> Null, meta |-> Null]

loadFileAliases(E) ==
  IF E.aliasFile = Null THEN EmptyMap
  ELSE LET parsed == AliasFileParse(E.aliasFile[1].text)
       IN IF parsed = Null THEN EmptyMap
          ELSE [k \in {key \in DOMAIN parsed[1] :
                          isValidAliasKey(key) /\ isStringValue(parsed[1][key])} |->
                  parsed[1][k]]

\* base/ConceptMap/id when an id is remembered, else base/ConceptMap
getServerAliasSourceString(S) ==
  <<"ConceptMap", IF S.aliasResourceId # Null THEN S.aliasResourceId[1] ELSE "">>

getFileAliasSourceString == AliasesPath

\* Faulty variant of buildAliasesCache: a server alias overrides the file
\* alias of the same name.
buildAliasesCache_serverOverFile(S) ==
  [key \in (DOMAIN builtInAliases) \cup (DOMAIN S.serverAliases) \cup (DOMAIN S.fileAliases) |->
     IF key \in DOMAIN S.serverAliases
     THEN [value |-> S.serverAliases[key], sourceType |-> "server",
           source |-> getServerAliasSourceString(S)]
     ELSE IF key \in DOMAIN S.fileAliases
     THEN [value |-> S.fileAliases[key], sourceType |-> "file", source |-> getFileAliasSourceString]
     ELSE [value |-> builtInAliases[key], sourceType |-> "builtIn",
           source |-> <<"builtIn", "builtIn">>]]

buildAliasesCache(S) ==
  [key \in (DOMAIN builtInAliases) \cup (DOMAIN S.serverAliases) \cup (DOMAIN S.fileAliases) |->
     IF key \in DOMAIN S.fileAliases
     THEN [value |-> S.fileAliases[key], sourceType |-> "file", source |-> getFileAliasSourceString]
     ELSE IF key \in DOMAIN S.serverAliases
     THEN [value |-> S.serverAliases[key], sourceType |-> "server",
           source |-> getServerAliasSourceString(S)]
     ELSE [value |-> builtInAliases[key], sourceType |-> "builtIn",
           source |-> <<"builtIn", "builtIn">>]]

areAliasCachesEqual(a, b) ==
  /\ Cardinality(DOMAIN a) = Cardinality(DOMAIN b)
  /\ \A key \in DOMAIN a :
       /\ key \in DOMAIN b
       /\ a[key].value = b[key].value
       /\ a[key].sourceType = b[key].sourceType
       /\ a[key].source = b[key].source

\* Faulty variant of rebuildAliasesCacheIfChanged: the view is rewritten
\* without comparing it to the cached one.
rebuildAliasesCacheIfChanged_always(S) ==
  [S EXCEPT !.aliases = buildAliasesCache(S),
            !.log = S.log \cup {<<"aliases", "ALL">>}]

rebuildAliasesCacheIfChanged(S) ==
  LET nextCache == buildAliasesCache(S)
  IN IF areAliasCachesEqual(S.aliases, nextCache) THEN S
     ELSE [S EXCEPT !.aliases = buildAliasesCache(S),
                    !.log = S.log \cup {<<"aliases", "ALL">>}]

refreshAliasesFromSources(S, E) ==
  LET loaded == loadAliasesWithMetadata(E)
      S1 == [S EXCEPT !.serverAliases = filterInvalidAliases(loaded.aliases),
                      !.aliasResourceId = loaded.resourceId,
                      !.aliasResourceMeta = loaded.meta]
      S2 == [S1 EXCEPT !.fileAliases = loadFileAliases(E)]
  IN rebuildAliasesCacheIfChanged(S2)

\* Faulty variant of pollServerAliases: a 404 or 410 answer is ignored like
\* any other non-200 answer.
pollServerAliases_ignoresGone(S, E) ==
  IF S.aliasResourceId # Null
  THEN LET condition == IF S.aliasResourceMeta # Null THEN S.aliasResourceMeta[1]
                        ELSE [versionId |-> Undefined, lastUpdated |-> Undefined]
           response == conditionalReadAliases(E, S.aliasResourceId[1], condition)
       IN IF response.status = 200 /\ response.aliases # Null
          THEN rebuildAliasesCacheIfChanged(
                 [S EXCEPT !.serverAliases = filterInvalidAliases(response.aliases[1]),
                           !.aliasResourceId = IF response.resourceId # Null
                                               THEN response.resourceId ELSE S.aliasResourceId,
                           !.aliasResourceMeta = response.meta])
          ELSE S
  ELSE refreshAliasesFromSources(S, E)

\* the alias part of pollServerResources
pollServerAliases(S, E) ==
  IF S.aliasResourceId # Null
  THEN LET condition == IF S.aliasResourceMeta # Null THEN S.aliasResourceMeta[1]
                        ELSE [versionId |-> Undefined, lastUpdated |-> Undefined]
           response == conditionalReadAliases(E, S.aliasResourceId[1], condition)
       IN IF response.status = 200 /\ response.aliases # Null
          THEN rebuildAliasesCacheIfChanged(
                 [S EXCEPT !.serverAliases = filterInvalidAliases(response.aliases[1]),
                           !.aliasResourceId = IF response.resourceId # Null
                                               THEN response.resourceId ELSE S.aliasResourceId,
                           !.aliasResourceMeta = response.meta])
          ELSE IF response.status = 404 \/ response.status = 410
          THEN refreshAliasesFromSources(
                 IF E.pinned = Null
                 THEN [S EXCEPT !.aliasResourceId = Null, !.aliasResourceMeta = Null]
                 ELSE S, E)
          ELSE S
  ELSE refreshAliasesFromSources(S, E)

\* ------------------------------------------------------------------------
\* FumeMappingProvider: file poller
\* ------------------------------------------------------------------------
\* the entries of the mappings folder that pass the kind and key rules
\* (currentFiles), as paths
trackedPaths(E) ==
  {FileSource(k) : k \in {f \in DOMAIN E.mapFiles : isValidFileMappingKeyForPolling(f)}}
    \cup {JsonSource(k) : k \in {f \in DOMAIN E.jsonFiles : isValidJsonMappingKey(f)}}
    \cup (IF E.aliasFile # Null THEN {AliasesPath} ELSE {})

\* fs.stat of a listed path, as the fingerprint the poller records
statPath(E, path) ==
  IF path = AliasesPath
  THEN Fingerprint(E.aliasFile[1].mtimeMs, E.aliasFile[1].text, "aliases", FALSE, TRUE)
  ELSE IF path[1] = "json"
  THEN Fingerprint(E.jsonFiles[path[2]].mtimeMs, E.jsonFiles[path[2]].raw, path[2], TRUE, FALSE)
  ELSE Fingerprint(E.mapFiles[path[2]].mtimeMs, E.mapFiles[path[2]].content, path[2], FALSE, FALSE)

primeFilePollingState(S, E) ==
  IF ~E.dirOk THEN S
  ELSE [S EXCEPT
          !.fps = [path \in trackedPaths(E) |-> statPath(E, path)],
          !.raw = [k \in (DOMAIN S.raw) \cup
                            {p[2] : p \in {q \in trackedPaths(E) : statPath(E, q).isJson}} |->
                     IF k \in DOMAIN E.jsonFiles /\ isValidJsonMappingKey(k)
                     THEN E.jsonFiles[k].raw ELSE S.raw[k]]]

\* Faulty variant of recordFingerprint: the new fingerprint is not kept.
recordFingerprint_dropped(S, path, stat) == S

\* filePollingState.set(filePath, {mtimeMs, size, key, isJson, isAliasFile})
recordFingerprint(S, path, stat) == [S EXCEPT !.fps = MapSet(S.fps, path, stat)]

\* Faulty variant of pollOneFile: the recorded fingerprint is not consulted.
pollOneFile_ignoresFingerprint(S, E, path) ==
  LET key == path[2]
      stat == statPath(E, path)
      Sr == [S EXCEPT !.log = S.log \cup {<<"read", path>>}]
      S1 == IF stat.isAliasFile THEN refreshAliasesFromSources(Sr, E)
            ELSE refreshUserMapping(Sr, E, key)
  IN recordFingerprint(S1, path, stat)

\* one listed file of pollFileMappings' first loop
pollOneFile(S, E, path) ==
  LET key == path[2]
      stat == statPath(E, path)
      prev == MapGet(S.fps, path)
      changed == IF prev = Null THEN TRUE
                 ELSE prev[1].mtimeMs # stat.mtimeMs \/ prev[1].size # stat.size
      Sr == [S EXCEPT !.log = S.log \cup {<<"read", path>>}]
      raw == readJsonFileRaw(E, key)
      prevRaw == MapGet(S.raw, key)
      fileMapping == loadFileMapping(E, key)
      existing == MapGet(S.cache, key)
      S1 == IF stat.isAliasFile
            THEN refreshAliasesFromSources(Sr, E)
            ELSE IF stat.isJson
            THEN (IF raw # Null /\ raw # prevRaw
                  THEN refreshUserMapping([Sr EXCEPT !.raw = MapSet(Sr.raw, key, raw[1])], E, key)
                  ELSE Sr)
            ELSE (IF fileMapping # Null
                  THEN (IF existing = Null
                        THEN applySingleMappingUpdate(Sr, key, fileMapping[1], Null)
                        ELSE IF ~mappingsEquivalent(Sr.raw, existing[1], fileMapping[1], Null)
                        THEN applySingleMappingUpdate(Sr, key, fileMapping[1], Null)
                        ELSE Sr)
                  ELSE refreshUserMapping(Sr, E, key))
  IN IF changed THEN recordFingerprint(S1, path, stat) ELSE S

\* one tracked path of pollFileMappings' deletion loop
pollOneDeletion(S, E, path) ==
  IF path \in trackedPaths(E) THEN S
  ELSE LET prev == S.fps[path]
           Sd == [S EXCEPT !.fps = MapDelete(S.fps, path)]
           S1 == refreshUserMapping(Sd, E, prev.key)
       IN IF prev.isAliasFile THEN refreshAliasesFromSources(Sd, E)
          ELSE [S1 EXCEPT !.raw = MapDelete(S1.raw, prev.key)]

\* readdir order: name.fume sorts before name.json
nextPath(todo) ==
  IF \E p \in todo : p[1] = "fume" THEN CHOOSE p \in todo : p[1] = "fume"
  ELSE CHOOSE p \in todo : TRUE

RECURSIVE pollFiles(_, _, _)
pollFiles(S, E, todo) ==
  IF todo = {} THEN S
  ELSE LET path == nextPath(todo)
       IN pollFiles(pollOneFile(S, E, path), E, todo \ {path})

RECURSIVE pollDeletions(_, _, _)
pollDeletions(S, E, todo) ==
  IF todo = {} THEN S
  ELSE LET path == nextPath(todo)
       IN pollDeletions(pollOneDeletion(S, E, path), E, todo \ {path})

pollFileMappings(S, E) ==
  IF ~E.dirOk THEN S
  ELSE LET S1 == pollFiles(S, E, trackedPaths(E))
       IN pollDeletions(S1, E, DOMAIN S1.fps)

\* ------------------------------------------------------------------------
\* FumeMappingProvider: server poller (mapping search part)
\* ------------------------------------------------------------------------
RECURSIVE applySearchResults(_, _, _)
applySearchResults(S, found, todo) ==
  IF todo = {} THEN S
  ELSE LET key == CHOOSE k \in todo : TRUE
           S1 == IF key \in DOMAIN found.metaByKey
                 THEN [S EXCEPT !.meta = MapSet(S.meta, key, found.metaByKey[key])]
                 ELSE S
       IN applySearchResults(applySingleMappingUpdate(S1, key, found.mappings[key], Null),
                             found, todo \ {key})

pollServerMappings(S, E, since) ==
  LET found == searchServerMappings(E, since)
  IN applySearchResults(S, found, DOMAIN found.mappings)

pollServerResources(S, E, since) == pollServerMappings(pollServerAliases(S, E), E, since)

\* Faulty variant of forcedResync: the mappings are not reconciled.
forcedResync_aliasesOnly(S, E) ==
  primeFilePollingState(refreshAliasesFromSources(S, E), E)

forcedResync(S, E) ==
  primeFilePollingState(refreshAliasesFromSources(refreshUserMappingsFromSources(S, E), E), E)

\* ------------------------------------------------------------------------
\* Initial states
\* ------------------------------------------------------------------------
AliasElements1 == << <<"k1", "v2">>, <<"k2", "v3">> >>
\* a ConceptMap with an element that has no code and one whose code is no
\* valid alias name, and one that redefines a built-in alias
AliasElements2 == << <<"k1", "v8">>, <<"k2", "v4">>, <<"", "v9">>, <<"bad-key", "v6">>, <<"loinc", "v7">> >>

\* ------------------------------------------------------------------------
\* FumeMappingProvider: automatic change tracking
\* ------------------------------------------------------------------------
Drivers == {"file", "server", "resync"}

DEFAULT_FILE_POLLING_INTERVAL_MS == 5000
DEFAULT_SERVER_POLLING_INTERVAL_MS == 30000
DEFAULT_FORCED_RESYNC_INTERVAL_MS == 3600000

\* a configuration that sets no interval and has a folder and a client
DefaultConfig ==
  [filePollingIntervalMs |-> Null, serverPollingIntervalMs |-> Null,
   forcedResyncIntervalMs |-> Null, mappingsFolder |-> TRUE, fhirClient |-> TRUE,
   fileExtension |-> Null]

\* Faulty variant of resolveInterval: a configured 0 falls back to the
\* default like an unconfigured interval.
resolveInterval_zeroIsDefault(value, defaultValue) ==
  IF value = Null \/ value = Some(0) THEN defaultValue ELSE value[1]

\* value ?? defaultValue
resolveInterval(value, defaultValue) ==
  IF value = Null THEN defaultValue ELSE value[1]

\* the timer field of driver d
HandleOf(T, d) ==
  IF d = "file" THEN T.filePollingTimer
  ELSE IF d = "server" THEN T.serverPollingTimer ELSE T.forcedResyncTimer

\* if (timer) clearInterval(timer): the interval the field refers to is
\* removed from the event loop
cleared(T, d) ==
  IF HandleOf(T, d) # Null THEN T.activeIntervals[d] - 1 ELSE T.activeIntervals[d]

\* Faulty variant of stopAutomaticChangeTracking: the forced resync timer is
\* left running.
stopAutomaticChangeTracking_keepsResync(T) ==
  [filePollingTimer |-> Null, serverPollingTimer |-> Null,
   forcedResyncTimer |-> T.forcedResyncTimer,
   activeIntervals |-> [d \in Drivers |->
                          IF d # "resync" THEN cleared(T, d) ELSE T.activeIntervals[d]]]

\* clearInterval of each timer T holds
stopAutomaticChangeTracking(T) ==
  [filePollingTimer |-> Null, serverPollingTimer |-> Null, forcedResyncTimer |-> Null,
   activeIntervals |-> [d \in Drivers |-> cleared(T, d)]]

\* Faulty variant of startAutomaticChangeTracking: the running timers are
\* not stopped first.
startAutomaticChangeTracking_withoutStop(cfg, T) ==
  LET fileInterval == resolveInterval(cfg.filePollingIntervalMs, DEFAULT_FILE_POLLING_INTERVAL_MS)
      serverInterval ==
        resolveInterval(cfg.serverPollingIntervalMs, DEFAULT_SERVER_POLLING_INTERVAL_MS)
      resyncInterval ==
        resolveInterval(cfg.forcedResyncIntervalMs, DEFAULT_FORCED_RESYNC_INTERVAL_MS)
  IN [filePollingTimer |-> IF fileInterval > 0 /\ cfg.mappingsFolder
                           THEN Some(fileInterval) ELSE T.filePollingTimer,
      serverPollingTimer |-> IF serverInterval > 0 /\ cfg.fhirClient
                             THEN Some(serverInterval) ELSE T.serverPollingTimer,
      forcedResyncTimer |-> IF resyncInterval > 0
                            THEN Some(resyncInterval) ELSE T.forcedResyncTimer,
      activeIntervals |->
        [d \in Drivers |->
           IF \/ d = "file" /\ fileInterval > 0 /\ cfg.mappingsFolder
              \/ d = "server" /\ serverInterval > 0 /\ cfg.fhirClient
              \/ d = "resync" /\ resyncInterval > 0
           THEN T.activeIntervals[d] + 1 ELSE T.activeIntervals[d]]]

\* the timers after startAutomaticChangeTracking(), which stops the running
\* ones first
startAutomaticChangeTracking(cfg, T) ==
  LET stopped == stopAutomaticChangeTracking(T)
      fileInterval == resolveInterval(cfg.filePollingIntervalMs, DEFAULT_FILE_POLLING_INTERVAL_MS)
      serverInterval ==
        resolveInterval(cfg.serverPollingIntervalMs, DEFAULT_SERVER_POLLING_INTERVAL_MS)
      resyncInterval ==
        resolveInterval(cfg.forcedResyncIntervalMs, DEFAULT_FORCED_RESYNC_INTERVAL_MS)
  IN [filePollingTimer |-> IF fileInterval > 0 /\ cfg.mappingsFolder
                           THEN Some(fileInterval) ELSE stopped.filePollingTimer,
      serverPollingTimer |-> IF serverInterval > 0 /\ cfg.fhirClient
                             THEN Some(serverInterval) ELSE stopped.serverPollingTimer,
      forcedResyncTimer |-> IF resyncInterval > 0
                            THEN Some(resyncInterval) ELSE stopped.forcedResyncTimer,
      activeIntervals |->
        [d \in Drivers |->
           IF \/ d = "file" /\ fileInterval > 0 /\ cfg.mappingsFolder
              \/ d = "server" /\ serverInterval > 0 /\ cfg.fhirClient
              \/ d = "resync" /\ resyncInterval > 0
           THEN stopped.activeIntervals[d] + 1 ELSE stopped.activeIntervals[d]]]

Timers ==
  [filePollingTimer |-> filePollingTimer, serverPollingTimer |-> serverPollingTimer,
   forcedResyncTimer |-> forcedResyncTimer, activeIntervals |-> activeIntervals]

SetTimers(T) ==
  /\ activeIntervals' = T.activeIntervals
  /\ filePollingTimer' = T.filePollingTimer
  /\ serverPollingTimer' = T.serverPollingTimer
  /\ forcedResyncTimer' = T.forcedResyncTimer

\* Faulty variant of tickSkipped: a tick starts although the previous one of
\* the same driver is still running.
tickSkipped_never(inProgress) == FALSE

\* if (this.filePollInProgress) return;  (and its two siblings)
tickSkipped(inProgress) == inProgress

\* the provider right after its constructor
InitFields ==
  /\ activeIntervals = [d \in Drivers |-> 0]
  /\ filePollingTimer = Null
  /\ serverPollingTimer = Null
  /\ forcedResyncTimer = Null
  /\ filePollInProgress = FALSE
  /\ serverPollInProgress = FALSE
  /\ resyncInProgress = FALSE
  /\ inFlight = [d \in Drivers |-> 0]
  /\ userMappingsCache = EmptyMap
  /\ jsonMappingRawCache = EmptyMap
  /\ serverMappingsMeta = EmptyMap
  /\ filePollingState = EmptyMap
  /\ lastServerPollAt = Undefined
  /\ serverAliases = EmptyMap
  /\ fileAliases = EmptyMap
  /\ aliasResourceId = Null
  /\ aliasResourceMeta = Null
  /\ aliasesCacheWithMetadata =
       buildAliasesCache([serverAliases |-> EmptyMap, fileAliases |-> EmptyMap,
                          aliasResourceId |-> Null])

InitProvider ==
  /\ phase = "constructed"
  /\ InitFields

\* no package is installed and getPackageMapping has not been called
NoPackages ==
  /\ packages = << >>
  /\ packageMappingCall = Null

\* no alias object has been converted
NoConversion ==
  /\ aliasObject = EmptyMap
  /\ convertedAliases = Null

\* no forced resync is between its read and its reconciliation
NoPendingResync == pendingMappings = Null

\* mapping sources vary, the alias sources are those of the merge scenario:
\* aliases.json {"k1":"v1"}, one server ConceptMap {"k1":"v2","k2":"v3"}
Init ==
  /\ InitProvider
  /\ NoPackages
  /\ NoConversion
  /\ NoPendingResync
  /\ fsClock = 1
  /\ now = 1
  /\ \E present \in SUBSET FileKeys :
       mapFiles = [k \in present \cup {"b_1"} |-> [content |-> "X", mtimeMs |-> 1]]
  /\ \E present \in SUBSET ServerKeys :
       srvMaps = [k \in present \cup {"b_1"} |->
                    [expression |-> "Y", versionId |-> WriteInstant(1), lastUpdated |-> WriteInstant(1)]]
  /\ jsonFiles = EmptyMap
  /\ aliasFile = Some([text |-> "a1", mtimeMs |-> 1])
  /\ aliasMaps = [id \in {"cm1"} |-> [element |-> AliasElements1, versionId |-> WriteInstant(1), lastUpdated |-> WriteInstant(1)]]
  /\ aliasConceptMapId = Null
  /\ config = DefaultConfig

\* ------------------------------------------------------------------------
\* The sources change (environment)
\* ------------------------------------------------------------------------
\* a change of the sources leaves the provider's fields alone
EnvStep ==
  UNCHANGED <<phase, mappingVars, filePollingState, lastServerPollAt, aliasVars,
              aliasConceptMapId, config, timerVars, tickVars, packageVars, conversionVars, pendingMappings>>

\* create, rewrite or touch a text mapping file
WriteMapFile ==
  /\ fsClock < MaxFsClock
  /\ \E k \in FileKeys, c \in Contents :
       mapFiles' = MapSet(mapFiles, k, [content |-> c, mtimeMs |-> fsClock + 1])
  /\ fsClock' = fsClock + 1
  /\ EnvStep
  /\ UNCHANGED <<jsonFiles, aliasFile, srvMaps, aliasMaps, now>>

DeleteMapFile ==
  /\ fsClock < MaxFsClock
  /\ \E k \in FileKeys \cap DOMAIN mapFiles : mapFiles' = MapDelete(mapFiles, k)
  /\ fsClock' = fsClock + 1
  /\ EnvStep
  /\ UNCHANGED <<jsonFiles, aliasFile, srvMaps, aliasMaps, now>>

\* create or update a StructureMap on the server
PutStructureMap ==
  /\ now < MaxServerWrites
  /\ \E k \in ServerKeys, c \in Contents :
       srvMaps' = MapSet(srvMaps, k, [expression |-> c, versionId |-> WriteInstant(now + 1),
                                      lastUpdated |-> WriteInstant(now + 1)])
  /\ now' = now + 1
  /\ EnvStep
  /\ UNCHANGED <<mapFiles, jsonFiles, aliasFile, fsClock, aliasMaps>>

DeleteStructureMap ==
  /\ now < MaxServerWrites
  /\ \E k \in ServerKeys \cap DOMAIN srvMaps : srvMaps' = MapDelete(srvMaps, k)
  /\ now' = now + 1
  /\ EnvStep
  /\ UNCHANGED <<mapFiles, jsonFiles, aliasFile, fsClock, aliasMaps>>

\* ------------------------------------------------------------------------
\* The provider's operations
\* ------------------------------------------------------------------------
Commit(S) ==
  /\ userMappingsCache' = S.cache
  /\ jsonMappingRawCache' = S.raw
  /\ serverMappingsMeta' = S.meta
  /\ filePollingState' = S.fps
  /\ serverAliases' = S.serverAliases
  /\ fileAliases' = S.fileAliases
  /\ aliasResourceId' = S.aliasResourceId
  /\ aliasResourceMeta' = S.aliasResourceMeta
  /\ aliasesCacheWithMetadata' = S.aliases

StoresUnchanged ==
  UNCHANGED <<mapFiles, jsonFiles, aliasFile, fsClock, srvMaps, aliasMaps, aliasConceptMapId,
              config, packageVars, conversionVars, pendingMappings>>

\* initialize(): full load of mappings and aliases, prime the fingerprints,
\* remember the poll instant, start the timers
InitializeWith(srvOk, dirOk) ==
  /\ phase = "constructed"
  /\ Commit(forcedResync(Prov, Env(srvOk, dirOk, 404)))
  /\ lastServerPollAt' = ClockRead(now)
  /\ SetTimers(startAutomaticChangeTracking(config, Timers))
  /\ phase' = "running"
  /\ UNCHANGED <<now, tickVars>>
  /\ StoresUnchanged

Initialize == \E srvOk \in BOOLEAN, dirOk \in BOOLEAN : InitializeWith(srvOk, dirOk)

ReloadUserMappingsWith(srvOk, dirOk) ==
  /\ phase = "running"
  /\ Commit(refreshUserMappingsFromSources(Prov, Env(srvOk, dirOk, 404)))
  /\ UNCHANGED <<phase, lastServerPollAt, now, timerVars, tickVars>>
  /\ StoresUnchanged

ReloadUserMappings ==
  \E srvOk \in BOOLEAN, dirOk \in BOOLEAN : ReloadUserMappingsWith(srvOk, dirOk)

RefreshUserMappingOf(key, srvOk, nf) ==
  /\ phase = "running"
  /\ Commit(refreshUserMapping(Prov, Env(srvOk, TRUE, nf), key))
  /\ UNCHANGED <<phase, lastServerPollAt, now, timerVars, tickVars>>
  /\ StoresUnchanged

RefreshUserMapping ==
  \E key \in Keys, srvOk \in BOOLEAN, nf \in {404, 410} : RefreshUserMappingOf(key, srvOk, nf)

\* one tick of the file polling timer
PollFileMappingsWith(srvOk, dirOk) ==
  /\ phase = "running"
  /\ Commit(pollFileMappings(Prov, Env(srvOk, dirOk, 404)))
  /\ UNCHANGED <<phase, lastServerPollAt, now, timerVars, tickVars>>
  /\ StoresUnchanged

PollFileMappings ==
  \E srvOk \in BOOLEAN, dirOk \in BOOLEAN : PollFileMappingsWith(srvOk, dirOk)

\* one tick of the server polling timer
PollServerResourcesWith(srvOk, nf) ==
  /\ phase = "running"
  /\ Commit(pollServerResources(Prov, Env(srvOk, TRUE, nf), lastServerPollAt))
  /\ lastServerPollAt' = ClockRead(now)
  /\ UNCHANGED <<phase, now, timerVars, tickVars>>
  /\ StoresUnchanged

PollServerResources ==
  \E srvOk \in BOOLEAN, nf \in {404, 410} : PollServerResourcesWith(srvOk, nf)

\* one tick of the forced resync timer
ForcedResyncWith(srvOk, dirOk) ==
  /\ phase = "running"
  /\ Commit(forcedResync(Prov, Env(srvOk, dirOk, 404)))
  /\ UNCHANGED <<phase, lastServerPollAt, now, timerVars, tickVars>>
  /\ StoresUnchanged

ForcedResync == \E srvOk \in BOOLEAN, dirOk \in BOOLEAN : ForcedResyncWith(srvOk, dirOk)

Next ==
  \/ WriteMapFile
  \/ DeleteMapFile
  \/ PutStructureMap
  \/ DeleteStructureMap
  \/ Initialize
  \/ ReloadUserMappings
  \/ RefreshUserMapping
  \/ PollFileMappings
  \/ PollServerResources
  \/ ForcedResync

Spec == Init /\ [][Next]_vars

\* ------------------------------------------------------------------------
\* JSON mapping files: the folder holds *.json mappings that change while
\* the provider runs with only its file poller started (serverPollingIntervalMs
\* and forcedResyncIntervalMs <= 0); the server and the text files stay put.
\* ------------------------------------------------------------------------
InitJson ==
  /\ InitProvider
  /\ NoPackages
  /\ NoConversion
  /\ NoPendingResync
  /\ fsClock = 1
  /\ now = 1
  /\ mapFiles = EmptyMap
  /\ \E present \in SUBSET ServerKeys :
       srvMaps = [k \in present \cup {"b_1"} |->
                    [expression |-> "Y", versionId |-> WriteInstant(1), lastUpdated |-> WriteInstant(1)]]
  /\ \E present \in SUBSET JsonKeys :
       jsonFiles = [k \in present |-> [raw |-> "ab", mtimeMs |-> 1]]
  /\ aliasFile = Some([text |-> "a1", mtimeMs |-> 1])
  /\ aliasMaps = [id \in {"cm1"} |-> [element |-> AliasElements1, versionId |-> WriteInstant(1), lastUpdated |-> WriteInstant(1)]]
  /\ aliasConceptMapId = Null
  /\ config = DefaultConfig

\* create, rewrite or touch a *.json mapping file
WriteJsonFile ==
  /\ fsClock < MaxFsClock
  /\ \E k \in JsonKeys, raw \in JsonTexts :
       jsonFiles' = MapSet(jsonFiles, k, [raw |-> raw, mtimeMs |-> fsClock + 1])
  /\ fsClock' = fsClock + 1
  /\ EnvStep
  /\ UNCHANGED <<mapFiles, aliasFile, srvMaps, aliasMaps, now>>

DeleteJsonFile ==
  /\ fsClock < MaxFsClock
  /\ \E k \in JsonKeys \cap DOMAIN jsonFiles : jsonFiles' = MapDelete(jsonFiles, k)
  /\ fsClock' = fsClock + 1
  /\ EnvStep
  /\ UNCHANGED <<mapFiles, aliasFile, srvMaps, aliasMaps, now>>

NextJson ==
  \/ WriteJsonFile
  \/ DeleteJsonFile
  \/ Initialize
  \/ RefreshUserMapping
  \/ PollFileMappings

SpecJson == InitJson /\ [][NextJson]_vars

\* ------------------------------------------------------------------------
\* Aliases: the alias ConceptMaps on the server and aliases.json change
\* while the provider runs; the alias resource id is pinned by configuration
\* or discovered; the mapping sources stay put and hold no mapping with a
\* valid name (b_1.fume, StructureMap c-2).
\* ------------------------------------------------------------------------
InitAlias ==
  /\ InitProvider
  /\ NoPackages
  /\ NoConversion
  /\ NoPendingResync
  /\ fsClock = 1
  /\ now = 1
  /\ mapFiles = [k \in {"b_1"} |-> [content |-> "X", mtimeMs |-> 1]]
  /\ srvMaps = [k \in {"c-2"} |->
                  [expression |-> "Y", versionId |-> WriteInstant(1), lastUpdated |-> WriteInstant(1)]]
  /\ jsonFiles = EmptyMap
  /\ \E present \in BOOLEAN :
       aliasFile = IF present THEN Some([text |-> "a1", mtimeMs |-> 1]) ELSE Null
  /\ aliasMaps = [id \in {"cm1"} |-> [element |-> AliasElements1, versionId |-> WriteInstant(1), lastUpdated |-> WriteInstant(1)]]
  /\ aliasConceptMapId \in {Null, Some("cm1")}
  /\ config = DefaultConfig

\* create or update an alias ConceptMap on the server
PutAliasConceptMap ==
  /\ now < MaxServerWrites
  /\ \E id \in AliasIds, element \in {AliasElements1, AliasElements2} :
       aliasMaps' = MapSet(aliasMaps, id, [element |-> element, versionId |-> WriteInstant(now + 1),
                                          lastUpdated |-> WriteInstant(now + 1)])
  /\ now' = now + 1
  /\ EnvStep
  /\ UNCHANGED <<mapFiles, jsonFiles, aliasFile, fsClock, srvMaps>>

DeleteAliasConceptMap ==
  /\ now < MaxServerWrites
  /\ \E id \in AliasIds \cap DOMAIN aliasMaps : aliasMaps' = MapDelete(aliasMaps, id)
  /\ now' = now + 1
  /\ EnvStep
  /\ UNCHANGED <<mapFiles, jsonFiles, aliasFile, fsClock, srvMaps>>

\* create, rewrite or touch aliases.json
WriteAliasFile ==
  /\ fsClock < MaxFsClock
  /\ \E text \in AliasTexts : aliasFile' = Some([text |-> text, mtimeMs |-> fsClock + 1])
  /\ fsClock' = fsClock + 1
  /\ EnvStep
  /\ UNCHANGED <<mapFiles, jsonFiles, srvMaps, aliasMaps, now>>

DeleteAliasFile ==
  /\ fsClock < MaxFsClock
  /\ aliasFile # Null
  /\ aliasFile' = Null
  /\ fsClock' = fsClock + 1
  /\ EnvStep
  /\ UNCHANGED <<mapFiles, jsonFiles, srvMaps, aliasMaps, now>>

\* reloadAliases()
ReloadAliasesWith(srvOk) ==
  /\ phase = "running"
  /\ Commit(refreshAliasesFromSources(Prov, Env(srvOk, TRUE, 404)))
  /\ UNCHANGED <<phase, lastServerPollAt, now, timerVars, tickVars>>
  /\ StoresUnchanged

ReloadAliases == \E srvOk \in BOOLEAN : ReloadAliasesWith(srvOk)

NextAlias ==
  \/ PutAliasConceptMap
  \/ DeleteAliasConceptMap
  \/ WriteAliasFile
  \/ DeleteAliasFile
  \/ Initialize
  \/ ReloadAliases
  \/ PollFileMappings
  \/ PollServerResources
  \/ ForcedResync

SpecAlias == InitAlias /\ [][NextAlias]_vars

\* ------------------------------------------------------------------------
\* Batch loads: each source holds any mix of valid and invalid entries when
\* the provider is constructed; the provider loads and reloads them.
\* ------------------------------------------------------------------------
InitBatch ==
  /\ InitProvider
  /\ NoPackages
  /\ NoConversion
  /\ NoPendingResync
  /\ fsClock = 1
  /\ now = 1
  /\ \E present \in SUBSET {"alpha", "b_1"} :
       mapFiles = [k \in present |-> [content |-> "X", mtimeMs |-> 1]]
  /\ \E present \in SUBSET {"alpha", "b_1", "c-2"} :
       srvMaps = [k \in present |->
                    [expression |-> "Y", versionId |-> WriteInstant(1), lastUpdated |-> WriteInstant(1)]]
  /\ jsonFiles = EmptyMap
  /\ \E text \in AliasTexts : aliasFile \in {Null, Some([text |-> text, mtimeMs |-> 1])}
  /\ \E element \in {AliasElements1, AliasElements2} :
       aliasMaps = [id \in {"cm1"} |-> [element |-> element, versionId |-> WriteInstant(1),
                                       lastUpdated |-> WriteInstant(1)]]
  /\ aliasConceptMapId = Null
  /\ config = DefaultConfig

NextBatch ==
  \/ Initialize
  \/ ReloadUserMappings
  \/ ReloadAliases

SpecBatch == InitBatch /\ [][NextBatch]_vars

\* ------------------------------------------------------------------------
\* The public operations of src/FumeMappingProvider.ts that take a value
\* from the caller
\* ------------------------------------------------------------------------
\* an expression no source holds
CallerContents == {"Z"}

\* refreshUserMapping(key, mapping) with the optional mapping given: an
\* object is stored as it is, null removes the key
refreshUserMappingProvided(S, key, mapping) ==
  IF mapping # Null
  THEN [S EXCEPT !.cache = MapSet(S.cache, key, mapping[1]),
                 !.log = S.log \cup {<<"set", key>>},
                 !.result = mapping]
  ELSE [S EXCEPT !.cache = MapDelete(S.cache, key),
                 !.log = S.log \cup {<<"delete", key>>},
                 !.result = Null]

RefreshUserMappingProvidedWith(key, mapping) ==
  /\ phase = "running"
  /\ Commit(refreshUserMappingProvided(Prov, key, mapping))
  /\ UNCHANGED <<phase, lastServerPollAt, now, timerVars, tickVars>>
  /\ StoresUnchanged

RefreshUserMappingProvided ==
  \E key \in Keys :
    \E mapping \in {Null} \cup {Some(ServerMapping(key, c)) : c \in CallerContents} :
      RefreshUserMappingProvidedWith(key, mapping)

\* What a reader gets: the value, and the keys of the cached objects that
\* the value holds by reference (a JavaScript object is shared unless the
\* getter builds a new one).
\* getUserMapping: return this.userMappingsCache.get(key)
getUserMapping(S, key) ==
  [value |-> MapGet(S.cache, key),
   sharedMappings |-> IF key \in DOMAIN S.cache THEN {key} ELSE {},
   sharedAliases |-> {}]

\* getUserMappings: Array.from(this.userMappingsCache.values()), a new array
\* of the cached objects
getUserMappings(S) ==
  [value |-> S.cache, sharedMappings |-> DOMAIN S.cache, sharedAliases |-> {}]

\* getAliases: a new object filled with the alias values (strings)
getAliases(S) ==
  [value |-> [key \in DOMAIN S.aliases |-> S.aliases[key].value],
   sharedMappings |-> {}, sharedAliases |-> {}]

\* getAliasesWithMetadata: a new object filled with { ...entry } copies
getAliasesWithMetadata(S) ==
  [value |-> S.aliases, sharedMappings |-> {}, sharedAliases |-> {}]

\* the caller assigns returned[key].expression = expression (for one
\* mapping: returned.expression = expression)
assignExpression(S, returned, key, expression) ==
  IF key \in returned.sharedMappings
  THEN [S EXCEPT !.cache = MapSet(S.cache, key, [S.cache[key] EXCEPT !.expression = expression])]
  ELSE S

\* the caller assigns returned[key] = value, or returned[key].value = value
assignAlias(S, returned, key, value) ==
  IF key \in returned.sharedAliases
  THEN [S EXCEPT !.aliases = MapSet(S.aliases, key, [S.aliases[key] EXCEPT !.value = value])]
  ELSE S

\* a caller changes the expression of a mapping it got from getUserMapping
MutateReturnedMappingOf(key, expression) ==
  /\ phase = "running"
  /\ key \in DOMAIN userMappingsCache
  /\ Commit(assignExpression(Prov, getUserMapping(Prov, key), key, expression))
  /\ UNCHANGED <<phase, lastServerPollAt, now, timerVars, tickVars>>
  /\ StoresUnchanged

MutateReturnedMapping ==
  \E key \in Keys, expression \in CallerContents : MutateReturnedMappingOf(key, expression)

NextCaller ==
  \/ WriteMapFile
  \/ DeleteMapFile
  \/ Initialize
  \/ ReloadUserMappings
  \/ RefreshUserMapping
  \/ RefreshUserMappingProvided
  \/ MutateReturnedMapping

SpecCaller == Init /\ [][NextCaller]_vars

\* ------------------------------------------------------------------------
\* Automatic change tracking: the three timers fire while earlier ticks may
\* still be running; tracking is stopped and started again; the intervals,
\* the folder and the client are configured or not.  The sources stay put.
\* ------------------------------------------------------------------------
\* a tick body is capped so that a missing in-flight guard stays finite
MaxInFlight == 2

\* configured intervals: unset, negative, zero, positive
IntervalChoices == {Null, Some(-1), Some(0), Some(1000)}

InitTicks ==
  /\ InitProvider
  /\ NoPackages
  /\ NoConversion
  /\ NoPendingResync
  /\ fsClock = 1
  /\ now = 1
  /\ config \in [filePollingIntervalMs : IntervalChoices,
                  serverPollingIntervalMs : IntervalChoices,
                  forcedResyncIntervalMs : IntervalChoices,
                  mappingsFolder : BOOLEAN, fhirClient : BOOLEAN, fileExtension : {Null}]
  /\ mapFiles = IF config.mappingsFolder
                THEN [k \in {"alpha"} |-> [content |-> "X", mtimeMs |-> 1]] ELSE EmptyMap
  /\ aliasFile = IF config.mappingsFolder THEN Some([text |-> "a1", mtimeMs |-> 1]) ELSE Null
  /\ jsonFiles = EmptyMap
  /\ srvMaps = IF config.fhirClient
               THEN [k \in {"b_1"} |-> [expression |-> "Y", versionId |-> WriteInstant(1),
                                        lastUpdated |-> WriteInstant(1)]]
               ELSE EmptyMap
  /\ aliasMaps = IF config.fhirClient
                 THEN [id \in {"cm1"} |-> [element |-> AliasElements1,
                                           versionId |-> WriteInstant(1),
                                           lastUpdated |-> WriteInstant(1)]]
                 ELSE EmptyMap
  /\ aliasConceptMapId = Null

TimerOf(d) ==
  IF d = "file" THEN filePollingTimer
  ELSE IF d = "server" THEN serverPollingTimer ELSE forcedResyncTimer

InProgress(d) ==
  IF d = "file" THEN filePollInProgress
  ELSE IF d = "server" THEN serverPollInProgress ELSE resyncInProgress

SetInProgress(d, value) ==
  /\ filePollInProgress' = IF d = "file" THEN value ELSE filePollInProgress
  /\ serverPollInProgress' = IF d = "server" THEN value ELSE serverPollInProgress
  /\ resyncInProgress' = IF d = "resync" THEN value ELSE resyncInProgress

\* what the tick of driver d does between setting and clearing its flag
tickBody(d, S, E, since) ==
  IF d = "file" THEN pollFileMappings(S, E)
  ELSE IF d = "server" THEN pollServerResources(S, E, since) ELSE forcedResync(S, E)

\* whether the promise of driver d's tick is rejected: pollFileMappings awaits
\* fs.readdir inside try/finally with no catch; every source call of the
\* other two handlers catches its errors
tickRejects(d, E) == d = "file" /\ ~E.dirOk

\* startAutomaticChangeTracking()
StartAutomaticChangeTracking ==
  /\ phase = "running"
  /\ SetTimers(startAutomaticChangeTracking(config, Timers))
  /\ UNCHANGED <<phase, mappingVars, filePollingState, lastServerPollAt, aliasVars, now, tickVars>>
  /\ StoresUnchanged

\* stopAutomaticChangeTracking()
StopAutomaticChangeTracking ==
  /\ phase = "running"
  /\ SetTimers(stopAutomaticChangeTracking(Timers))
  /\ UNCHANGED <<phase, mappingVars, filePollingState, lastServerPollAt, aliasVars, now, tickVars>>
  /\ StoresUnchanged

\* the timer of driver d fires: the callback returns at once when the
\* driver's flag is set, else sets the flag and starts its body
TickFires(d) ==
  /\ phase = "running"
  /\ TimerOf(d) # Null
  /\ IF tickSkipped(InProgress(d))
     THEN UNCHANGED tickVars
     ELSE /\ inFlight[d] < MaxInFlight
          /\ SetInProgress(d, TRUE)
          /\ inFlight' = [inFlight EXCEPT ![d] = @ + 1]
  /\ UNCHANGED <<phase, mappingVars, filePollingState, lastServerPollAt, aliasVars, now, timerVars>>
  /\ StoresUnchanged

\* a running body of driver d ends, normally (its writes are applied) or by
\* an error; the finally block clears the flag
TickEnds(d, srvOk, dirOk, ok) ==
  /\ inFlight[d] > 0
  /\ IF ok
     THEN /\ Commit(tickBody(d, Prov, Env(srvOk, dirOk, 404), lastServerPollAt))
          /\ lastServerPollAt' = IF d = "server" THEN ClockRead(now) ELSE lastServerPollAt
     ELSE UNCHANGED <<mappingVars, filePollingState, aliasVars, lastServerPollAt>>
  /\ SetInProgress(d, FALSE)
  /\ inFlight' = [inFlight EXCEPT ![d] = @ - 1]
  /\ UNCHANGED <<phase, now, timerVars>>
  /\ StoresUnchanged

NextTicks ==
  \/ Initialize
  \/ StartAutomaticChangeTracking
  \/ StopAutomaticChangeTracking
  \/ \E d \in Drivers : TickFires(d)
  \/ \E d \in Drivers, srvOk \in BOOLEAN, dirOk \in BOOLEAN, ok \in BOOLEAN :
       TickEnds(d, srvOk, dirOk, ok)

SpecTicks == InitTicks /\ [][NextTicks]_vars

\* ------------------------------------------------------------------------
\* Package mappings: PackageMappingProvider.getMapping over the StructureMaps
\* of the installed packages
\* ------------------------------------------------------------------------
MaxPackages == 2

Identifiers == {"a", "b"}
LookupSteps == {"url", "id", "name"}

\* a StructureMap of a package is a FUME mapping with package identity, a
\* FUME mapping the explorer gave no package identity, or not a FUME mapping
StructureMapKinds == {"fume", "loose", "plain"}

PackagedStructureMap(id, url, name, kind) ==
  [id |-> id, url |-> url, name |-> name,
   fume |-> kind # "plain",
   expression |-> IF kind = "plain" THEN Null ELSE Some("X"),
   packageId |-> IF kind = "fume" THEN Some("pkg") ELSE Null]

PackagedStructureMaps ==
  {PackagedStructureMap(id, url, name, kind) :
     id \in Identifiers, url \in Identifiers, name \in Identifiers,
     kind \in StructureMapKinds}

PackageStores ==
  UNION {[1..n -> PackagedStructureMaps] : n \in 0..MaxPackages}

isFumeMapping(structureMap) == structureMap.fume

structureMapToExpression(structureMap) == structureMap.expression

Matching(store, field, identifier) ==
  SelectSeq(store, LAMBDA structureMap : structureMap[field] = identifier)

\* packageExplorer.resolve: the one resource the filter selects; it throws
\* when none or several match, or when the explorer itself fails
resolve(store, field, identifier, fails) ==
  LET found == Matching(store, field, identifier)
  IN IF field \in fails \/ Len(found) # 1
       THEN [threw |-> TRUE, value |-> Null]
       ELSE [threw |-> FALSE, value |-> Some(found[1])]

\* packageExplorer.lookup: every resource the filter selects, in order
lookup(store, field, identifier, fails) ==
  IF field \in fails
    THEN [threw |-> TRUE, value |-> << >>]
    ELSE [threw |-> FALSE, value |-> Matching(store, field, identifier)]

\* the PackageMapping built from a StructureMap, Null when the StructureMap
\* is not a FUME mapping or has no expression or no package identity
toPackageMapping(structureMap) ==
  IF /\ isFumeMapping(structureMap)
     /\ structureMapToExpression(structureMap) # Null
     /\ structureMap.packageId # Null
    THEN Some([id |-> structureMap.id,
               expression |-> structureMapToExpression(structureMap)[1],
               packageId |-> structureMap.packageId[1],
               name |-> structureMap.name,
               url |-> structureMap.url])
    ELSE Null

\* one resolve step of getMapping inside its try/catch
resolveStep(store, field, identifier, fails) ==
  LET resolved == resolve(store, field, identifier, fails)
  IN IF resolved.threw THEN Null ELSE toPackageMapping(resolved.value[1])

\* the lookup-by-name step of getMapping inside its try/catch
lookupStep(store, identifier, fails) ==
  LET structureMaps == lookup(store, "name", identifier, fails)
  IN IF structureMaps.threw \/ Len(structureMaps.value) = 0
       THEN Null
       ELSE toPackageMapping(structureMaps.value[1])

getMapping_idBeforeUrl(store, identifier, fails) ==
  LET byUrl == resolveStep(store, "url", identifier, fails)
      byId == resolveStep(store, "id", identifier, fails)
  IN IF byId # Null THEN byId
     ELSE IF byUrl # Null THEN byUrl
     ELSE lookupStep(store, identifier, fails)

\* getMapping(identifier): by url, then by id, then by name
getMapping(store, identifier, fails) ==
  LET byUrl == resolveStep(store, "url", identifier, fails)
      byId == resolveStep(store, "id", identifier, fails)
  IN IF byUrl # Null THEN byUrl
     ELSE IF byId # Null THEN byId
     ELSE lookupStep(store, identifier, fails)

\* getPackageMapping(identifier) of the engine delegates to the provider
getPackageMapping(store, identifier, fails) == getMapping(store, identifier, fails)

InitPackages ==
  /\ InitProvider
  /\ fsClock = 1
  /\ now = 1
  /\ mapFiles = EmptyMap
  /\ jsonFiles = EmptyMap
  /\ srvMaps = EmptyMap
  /\ aliasFile = Null
  /\ aliasMaps = EmptyMap
  /\ aliasConceptMapId = Null
  /\ config = DefaultConfig
  /\ packages \in PackageStores
  /\ NoConversion
  /\ NoPendingResync
  /\ packageMappingCall = Null

GetPackageMappingOf(identifier, fails) ==
  /\ packageMappingCall' =
       Some([identifier |-> identifier, fails |-> fails,
             result |-> getPackageMapping(packages, identifier, fails)])
  /\ UNCHANGED <<mapFiles, jsonFiles, aliasFile, fsClock, srvMaps, aliasMaps, now,
                 aliasConceptMapId, phase, mappingVars, filePollingState,
                 lastServerPollAt, aliasVars, config, timerVars, tickVars, packages, conversionVars, pendingMappings>>

GetPackageMapping ==
  \E identifier \in Identifiers, fails \in SUBSET LookupSteps :
    GetPackageMappingOf(identifier, fails)

NextPackages == GetPackageMapping

SpecPackages == InitPackages /\ [][NextPackages]_vars

\* ------------------------------------------------------------------------
\* Construction: new FumeMappingProvider(config) validates config.fileExtension
\* ------------------------------------------------------------------------
WhiteSpace == {" ", "\t"}

\* String.prototype.toLowerCase on one character
toLowerCaseChar(c) ==
  CASE c = "J" -> "j"
    [] c = "S" -> "s"
    [] c = "O" -> "o"
    [] c = "N" -> "n"
    [] OTHER -> c

toLowerCase(text) == [i \in 1..Len(text) |-> toLowerCaseChar(text[i])]

RECURSIVE trimStart(_)
trimStart(text) ==
  IF text # << >> /\ Head(text) \in WhiteSpace THEN trimStart(Tail(text)) ELSE text

RECURSIVE trimEnd(_)
trimEnd(text) ==
  IF text # << >> /\ text[Len(text)] \in WhiteSpace
    THEN trimEnd(SubSeq(text, 1, Len(text) - 1))
    ELSE text

\* String.prototype.trim
trim(text) == trimEnd(trimStart(text))

\* Faulty variant of validateConfig: the extension is compared as written.
validateConfig_asWritten(cfg) ==
  /\ cfg.fileExtension # Null
  /\ cfg.fileExtension[1] # << >>
  /\ cfg.fileExtension[1] \in {<<".", "j", "s", "o", "n">>, <<"j", "s", "o", "n">>}

\* validateConfig(): TRUE when it throws
validateConfig(cfg) ==
  /\ cfg.fileExtension # Null
  /\ cfg.fileExtension[1] # << >>
  /\ LET ext == toLowerCase(trim(cfg.fileExtension[1]))
     IN ext = <<".", "j", "s", "o", "n">> \/ ext = <<"j", "s", "o", "n">>

\* the spellings of json in any letter case
JsonSpellings ==
  {<<j, s, o, n>> : j \in {"j", "J"}, s \in {"s", "S"}, o \in {"o", "O"}, n \in {"n", "N"}}

OtherWords ==
  {<<"f", "u", "m", "e">>, <<"j", "s", "o">>, <<"j", "s", "o", "n", "x">>,
   <<"j", "s", " ", "o", "n">>, << >>}

Paddings == {<< >>, <<" ">>, <<"\t", " ">>}

Dots == {<< >>, <<".">>}

ExtensionTexts ==
  {lead \o dot \o word \o trail :
     lead \in Paddings, dot \in Dots, word \in JsonSpellings \cup OtherWords,
     trail \in Paddings}

InitConstruct ==
  /\ phase = "unconstructed"
  /\ InitFields
  /\ NoPackages
  /\ NoConversion
  /\ NoPendingResync
  /\ fsClock = 1
  /\ now = 1
  /\ mapFiles = EmptyMap
  /\ jsonFiles = EmptyMap
  /\ srvMaps = EmptyMap
  /\ aliasFile = Null
  /\ aliasMaps = EmptyMap
  /\ aliasConceptMapId = Null
  /\ \E fileExtension \in {Null} \cup {Some(text) : text \in ExtensionTexts} :
       config = [DefaultConfig EXCEPT !.fileExtension = fileExtension]

\* new FumeMappingProvider(config): validateConfig runs before anything is
\* set up; when it throws no instance exists
Construct ==
  /\ phase = "unconstructed"
  /\ phase' = IF validateConfig(config) THEN "rejected" ELSE "constructed"
  /\ UNCHANGED <<mapFiles, jsonFiles, aliasFile, fsClock, srvMaps, aliasMaps, now,
                 aliasConceptMapId, mappingVars, filePollingState,
                 lastServerPollAt, aliasVars, config, timerVars, tickVars, packageVars, conversionVars, pendingMappings>>

NextConstruct == Construct \/ Initialize

SpecConstruct == InitConstruct /\ [][NextConstruct]_vars

\* ------------------------------------------------------------------------
\* Alias conversion: aliasObjectToConceptMap and back
\* ------------------------------------------------------------------------
\* alias names and values of the conversion; "" is the empty string
ConversionKeys == {"k1", "k2", ""}
ConversionValues == {"v1", "v2", "v3", ""}

AliasObjects ==
  UNION {[present -> ConversionValues] : present \in SUBSET ConversionKeys}

\* Object.entries(aliases) as a sequence of <<key, value>>
RECURSIVE entries(_)
entries(aliases) ==
  IF DOMAIN aliases = {} THEN << >>
  ELSE LET key == CHOOSE k \in DOMAIN aliases : TRUE
       IN <<<<key, aliases[key]>>>> \o entries(MapDelete(aliases, key))

\* aliasObjectToConceptMap(aliases): group[0].element of the ConceptMap, one
\* element <<code, target[0].code>> per entry
aliasObjectToConceptMap(aliases) == entries(aliases)

InitConversion ==
  /\ InitProvider
  /\ NoPackages
  /\ fsClock = 1
  /\ now = 1
  /\ mapFiles = EmptyMap
  /\ jsonFiles = EmptyMap
  /\ srvMaps = EmptyMap
  /\ aliasFile = Null
  /\ aliasMaps = EmptyMap
  /\ aliasConceptMapId = Null
  /\ config = DefaultConfig
  /\ aliasObject \in AliasObjects
  /\ convertedAliases = Null
  /\ NoPendingResync

\* conceptMapToAliasObject(aliasObjectToConceptMap(aliasObject))
ConvertAliases ==
  /\ convertedAliases = Null
  /\ convertedAliases' = Some(conceptMapToAliasObject(aliasObjectToConceptMap(aliasObject)))
  /\ UNCHANGED <<mapFiles, jsonFiles, aliasFile, fsClock, srvMaps, aliasMaps, now,
                 aliasConceptMapId, phase, mappingVars, filePollingState,
                 lastServerPollAt, aliasVars, config, timerVars, tickVars, packageVars,
                 aliasObject, pendingMappings>>

NextConversion == ConvertAliases

SpecConversion == InitConversion /\ [][NextConversion]_vars

\* ------------------------------------------------------------------------
\* Overlap: a forced resync whose source read and whose reconciliation are
\* separate steps, with file-poll ticks and focused refreshes in between
\* ------------------------------------------------------------------------
InitOverlap ==
  /\ InitProvider
  /\ NoPackages
  /\ NoConversion
  /\ NoPendingResync
  /\ fsClock = 1
  /\ now = 1
  /\ mapFiles = [k \in {"alpha", "b_1"} |-> [content |-> "X", mtimeMs |-> 1]]
  /\ jsonFiles = EmptyMap
  /\ srvMaps = EmptyMap
  /\ aliasFile = Null
  /\ aliasMaps = EmptyMap
  /\ aliasConceptMapId = Null
  /\ config = DefaultConfig

\* forcedResync() up to the await of loadMappings and readJsonRawForMappings:
\* the sources have been read, nothing has been applied
ResyncReadsWith(srvOk, dirOk) ==
  /\ phase = "running"
  /\ ~tickSkipped(resyncInProgress)
  /\ pendingMappings = Null
  /\ resyncInProgress' = TRUE
  /\ LET E == Env(srvOk, dirOk, 404)
         mappings == loadMappings(E)
     IN pendingMappings' = Some([mappings |-> mappings,
                                 jsonRawByKey |-> readJsonRawForMappings(E, mappings)])
  /\ UNCHANGED <<mapFiles, jsonFiles, aliasFile, fsClock, srvMaps, aliasMaps, now,
                 aliasConceptMapId, phase, mappingVars, filePollingState,
                 lastServerPollAt, aliasVars, config, timerVars,
                 filePollInProgress, serverPollInProgress, inFlight,
                 packageVars, conversionVars>>

ResyncReads == \E srvOk \in BOOLEAN, dirOk \in BOOLEAN : ResyncReadsWith(srvOk, dirOk)

\* the rest of forcedResync(): applyMappingsIncrementally on what was read,
\* then the aliases and the fingerprints
ResyncAppliesWith(srvOk, dirOk) ==
  /\ pendingMappings # Null
  /\ LET E == Env(srvOk, dirOk, 404)
         S == applyMappingsIncrementally(Prov, pendingMappings[1].mappings,
                                         pendingMappings[1].jsonRawByKey)
     IN Commit(primeFilePollingState(refreshAliasesFromSources(S, E), E))
  /\ pendingMappings' = Null
  /\ resyncInProgress' = FALSE
  /\ UNCHANGED <<mapFiles, jsonFiles, aliasFile, fsClock, srvMaps, aliasMaps, now,
                 aliasConceptMapId, phase, lastServerPollAt, config, timerVars,
                 filePollInProgress, serverPollInProgress, inFlight,
                 packageVars, conversionVars>>

ResyncApplies == \E srvOk \in BOOLEAN, dirOk \in BOOLEAN : ResyncAppliesWith(srvOk, dirOk)

NextOverlap ==
  \/ WriteMapFile
  \/ Initialize
  \/ PollFileMappings
  \/ RefreshUserMapping
  \/ ResyncReads
  \/ ResyncApplies

SpecOverlap == InitOverlap /\ [][NextOverlap]_vars

\* ------------------------------------------------------------------------
\* Convergence: the three drivers tick for ever; the sources change a
\* bounded number of times and are reachable once they have stopped changing
\* ------------------------------------------------------------------------
\* no write to the folder or to the server is left
SourcesSettled == fsClock = MaxFsClock /\ now = MaxServerWrites

FilePollTick ==
  \E srvOk \in BOOLEAN, dirOk \in BOOLEAN :
    /\ SourcesSettled => srvOk /\ dirOk
    /\ PollFileMappingsWith(srvOk, dirOk)

ServerPollTick ==
  \E srvOk \in BOOLEAN, nf \in {404, 410} :
    /\ SourcesSettled => srvOk
    /\ PollServerResourcesWith(srvOk, nf)

ForcedResyncTick ==
  \E srvOk \in BOOLEAN, dirOk \in BOOLEAN :
    /\ SourcesSettled => srvOk /\ dirOk
    /\ ForcedResyncWith(srvOk, dirOk)

NextConverge ==
  \/ WriteMapFile
  \/ DeleteMapFile
  \/ PutStructureMap
  \/ DeleteStructureMap
  \/ Initialize
  \/ FilePollTick
  \/ ServerPollTick
  \/ ForcedResyncTick

\* the fields a tick writes
Outcome(S) ==
  <<S.cache, S.raw, S.meta, S.fps, S.serverAliases, S.fileAliases,
    S.aliasResourceId, S.aliasResourceMeta, S.aliases>>

\* no tick of the driver can change the state: ~ENABLED <<tick>>_vars
FilePollIdle ==
  \/ phase # "running"
  \/ \A srvOk \in BOOLEAN, dirOk \in BOOLEAN :
       (SourcesSettled => srvOk /\ dirOk)
         => Outcome(pollFileMappings(Prov, Env(srvOk, dirOk, 404))) = Outcome(Prov)

ServerPollIdle ==
  \/ phase # "running"
  \/ /\ lastServerPollAt = ClockRead(now)
     /\ \A srvOk \in BOOLEAN, nf \in {404, 410} :
          (SourcesSettled => srvOk)
            => Outcome(pollServerResources(Prov, Env(srvOk, TRUE, nf), lastServerPollAt))
                 = Outcome(Prov)

ForcedResyncIdle ==
  \/ phase # "running"
  \/ \A srvOk \in BOOLEAN, dirOk \in BOOLEAN :
       (SourcesSettled => srvOk /\ dirOk)
         => Outcome(forcedResync(Prov, Env(srvOk, dirOk, 404))) = Outcome(Prov)

\* setInterval fires each running timer again and again: weak fairness of
\* each driver's tick, WF_vars(tick), written out as
\* []<>(~ENABLED <<tick>>_vars) \/ []<><<tick>>_vars
TimersKeepFiring ==
  /\ []<>FilePollIdle \/ []<><<FilePollTick>>_vars
  /\ []<>ServerPollIdle \/ []<><<ServerPollTick>>_vars
  /\ []<>ForcedResyncIdle \/ []<><<ForcedResyncTick>>_vars

\* ------------------------------------------------------------------------
\* A folder that holds a text mapping file and a *.json mapping file of the
\* same name
\* ------------------------------------------------------------------------
InitFolder ==
  /\ InitProvider
  /\ NoPackages
  /\ NoConversion
  /\ NoPendingResync
  /\ fsClock = 1
  /\ now = 1
  /\ \E present \in SUBSET FileKeys :
       mapFiles = [k \in present |-> [content |-> "X", mtimeMs |-> 1]]
  /\ \E present \in SUBSET JsonKeys :
       jsonFiles = [k \in present |-> [raw |-> "ab", mtimeMs |-> 1]]
  /\ srvMaps = EmptyMap
  /\ aliasFile = Some([text |-> "a1", mtimeMs |-> 1])
  /\ aliasMaps = EmptyMap
  /\ aliasConceptMapId = Null
  /\ config = DefaultConfig

NextFolder ==
  \/ WriteMapFile
  \/ DeleteMapFile
  \/ WriteJsonFile
  \/ DeleteJsonFile
  \/ Initialize
  \/ PollFileMappings

SpecFolder == InitFolder /\ [][NextFolder]_vars

\* ------------------------------------------------------------------------
\* Start-up: initialize() step by step, each await ending one step, with the
\* timers' callbacks firing whenever their timer exists
\* ------------------------------------------------------------------------
\* Faulty variant of initializeTimers: the timers are started by the first
\* step of initialize().
initializeTimers_beforeLoads(ph, cfg, T) == startAutomaticChangeTracking(cfg, T)

\* the timers after the step of initialize() that starts in phase ph: only
\* the last step calls startAutomaticChangeTracking()
initializeTimers(ph, cfg, T) ==
  IF ph = "aliasesLoaded" THEN startAutomaticChangeTracking(cfg, T) ELSE T

\* await refreshUserMappingsFromSources('initialize')
InitializeLoadsMappings ==
  /\ phase = "constructed"
  /\ \E srvOk \in BOOLEAN, dirOk \in BOOLEAN :
       Commit(refreshUserMappingsFromSources(Prov, Env(srvOk, dirOk, 404)))
  /\ phase' = "mappingsLoaded"
  /\ SetTimers(initializeTimers(phase, config, Timers))
  /\ UNCHANGED <<lastServerPollAt, now, tickVars>>
  /\ StoresUnchanged

\* await refreshAliasesFromSources('initialize')
InitializeLoadsAliases ==
  /\ phase = "mappingsLoaded"
  /\ \E srvOk \in BOOLEAN, dirOk \in BOOLEAN :
       Commit(refreshAliasesFromSources(Prov, Env(srvOk, dirOk, 404)))
  /\ phase' = "aliasesLoaded"
  /\ SetTimers(initializeTimers(phase, config, Timers))
  /\ UNCHANGED <<lastServerPollAt, now, tickVars>>
  /\ StoresUnchanged

\* await primeFilePollingState(), then lastServerPollAt and
\* startAutomaticChangeTracking()
InitializePrimesAndStarts ==
  /\ phase = "aliasesLoaded"
  /\ \E srvOk \in BOOLEAN, dirOk \in BOOLEAN :
       Commit(primeFilePollingState(Prov, Env(srvOk, dirOk, 404)))
  /\ lastServerPollAt' = ClockRead(now)
  /\ phase' = "running"
  /\ SetTimers(initializeTimers(phase, config, Timers))
  /\ UNCHANGED <<now, tickVars>>
  /\ StoresUnchanged

\* a setInterval callback runs: its timer exists, whatever initialize() has
\* done so far
FileTimerFires ==
  /\ filePollingTimer # Null
  /\ \E srvOk \in BOOLEAN, dirOk \in BOOLEAN :
       Commit(pollFileMappings(Prov, Env(srvOk, dirOk, 404)))
  /\ UNCHANGED <<phase, lastServerPollAt, now, timerVars, tickVars>>
  /\ StoresUnchanged

ServerTimerFires ==
  /\ serverPollingTimer # Null
  /\ \E srvOk \in BOOLEAN :
       Commit(pollServerResources(Prov, Env(srvOk, TRUE, 404), lastServerPollAt))
  /\ lastServerPollAt' = ClockRead(now)
  /\ UNCHANGED <<phase, now, timerVars, tickVars>>
  /\ StoresUnchanged

ResyncTimerFires ==
  /\ forcedResyncTimer # Null
  /\ \E srvOk \in BOOLEAN, dirOk \in BOOLEAN :
       Commit(forcedResync(Prov, Env(srvOk, dirOk, 404)))
  /\ UNCHANGED <<phase, lastServerPollAt, now, timerVars, tickVars>>
  /\ StoresUnchanged

NextStartup ==
  \/ WriteMapFile
  \/ DeleteMapFile
  \/ PutStructureMap
  \/ DeleteStructureMap
  \/ InitializeLoadsMappings
  \/ InitializeLoadsAliases
  \/ InitializePrimesAndStarts
  \/ FileTimerFires
  \/ ServerTimerFires
  \/ ResyncTimerFires

SpecStartup == Init /\ [][NextStartup]_vars

\* ------------------------------------------------------------------------
\* Names: files and StructureMaps whose names break the key rules come and
\* go, and any name is refreshed
\* ------------------------------------------------------------------------
\* "alpha" is a valid name for a file and for the server, "b_1" for the
\* server only, "c-2" for neither
Names == {"alpha", "b_1", "c-2"}

\* writes to the folder, and to the server, while the provider runs
MaxNameWrites == 1

InitNames ==
  /\ InitProvider
  /\ NoPackages
  /\ NoConversion
  /\ NoPendingResync
  /\ fsClock = 1
  /\ now = 1
  /\ \E present \in {{}, Names} :
       mapFiles = [k \in present |-> [content |-> "X", mtimeMs |-> 1]]
  /\ \E present \in {{}, Names} :
       srvMaps = [k \in present |->
                    [expression |-> "Y", versionId |-> WriteInstant(1), lastUpdated |-> WriteInstant(1)]]
  /\ jsonFiles = EmptyMap
  /\ aliasFile = Null
  /\ aliasMaps = EmptyMap
  /\ aliasConceptMapId = Null
  /\ config = DefaultConfig

\* create or rewrite a text mapping file of any name
WriteNamedMapFile ==
  /\ fsClock <= MaxNameWrites
  /\ \E k \in Names :
       mapFiles' = MapSet(mapFiles, k, [content |-> "Y", mtimeMs |-> fsClock + 1])
  /\ fsClock' = fsClock + 1
  /\ EnvStep
  /\ UNCHANGED <<jsonFiles, aliasFile, srvMaps, aliasMaps, now>>

\* create or update a StructureMap of any id
PutNamedStructureMap ==
  /\ now <= MaxNameWrites
  /\ \E k \in Names :
       srvMaps' = MapSet(srvMaps, k, [expression |-> "X", versionId |-> WriteInstant(now + 1),
                                      lastUpdated |-> WriteInstant(now + 1)])
  /\ now' = now + 1
  /\ EnvStep
  /\ UNCHANGED <<mapFiles, jsonFiles, aliasFile, fsClock, aliasMaps>>

\* refreshUserMapping(key) with any name
RefreshNamedUserMapping ==
  \E key \in Names, srvOk \in BOOLEAN : RefreshUserMappingOf(key, srvOk, 404)

NextNames ==
  \/ WriteNamedMapFile
  \/ PutNamedStructureMap
  \/ Initialize
  \/ ReloadUserMappings
  \/ RefreshNamedUserMapping
  \/ PollFileMappings
  \/ PollServerResources
  \/ ForcedResync

SpecNames == InitNames /\ [][NextNames]_vars

\* ------------------------------------------------------------------------
\* Single keys: the folder and the server lose and gain mappings while keys
\* are refreshed one at a time, by the caller and by the file poller
\* ------------------------------------------------------------------------
NextSingleKey ==
  \/ WriteMapFile
  \/ DeleteMapFile
  \/ DeleteStructureMap
  \/ Initialize
  \/ ReloadUserMappings
  \/ RefreshUserMapping
  \/ PollFileMappings

SpecSingleKey == Init /\ [][NextSingleKey]_vars

SpecConverge ==
  /\ Init
  /\ [][NextConverge]_vars
  /\ TimersKeepFiring

\* ------------------------------------------------------------------------
\* Properties
\* ------------------------------------------------------------------------
\* A property of an operation's outcome is a state predicate: in every
\* reachable state it applies the operation's operator to the provider's
\* current fields (Prov) and to what the sources answer (Env), and speaks of
\* the fields, the write log and the return value that come out.  An
\* operation that changes no field is a stuttering step, about which an
\* action formula [][A => P]_vars says nothing.

\* C1: a server-poll tick never replaces the cache entry of a key that a
\* mapping file defines and that the cache holds from that file (file has
\* precedence over server), whatever the search returns for the key.
C1_ServerPollKeepsFileEntry ==
  [][\A k \in Keys :
       (/\ PollServerResources
        /\ loadFileMapping(Env(TRUE, TRUE, 404), k) # Null
        /\ MapGet(userMappingsCache, k) = loadFileMapping(Env(TRUE, TRUE, 404), k))
         => MapGet(userMappingsCache', k) = MapGet(userMappingsCache, k)]_vars

\* C2: a full reload (the load of initialize(), reloadUserMappings(), a
\* forced resync) that can read both sources leaves the cache equal to the
\* precedence-resolved target: every valid file key with the file's entry,
\* every other valid server key with the server's entry, and no other key.
C2_FullReloadReachesTarget ==
  LET E == Env(TRUE, TRUE, 404)
      fileKeys == {k \in DOMAIN mapFiles : isValidFileMappingKey(k)}
      serverKeys == {k \in DOMAIN srvMaps : isValidKey(k)}
      target == [k \in fileKeys \cup serverKeys |->
                   IF k \in fileKeys THEN FileMapping(k, mapFiles[k].content)
                   ELSE ServerMapping(k, srvMaps[k].expression)]
  IN /\ refreshUserMappingsFromSources(Prov, E).cache = target
     /\ forcedResync(Prov, E).cache = target

\* C2 happens: the provider runs, the cache holds the server's entry for a
\* key that a file and the server both define, and a forced resync replaces
\* it by the file's entry while keeping the server-only key.
C2_Witness ==
  LET S == forcedResync(Prov, Env(TRUE, TRUE, 404))
  IN /\ phase = "running"
     /\ "alpha" \in DOMAIN mapFiles /\ "alpha" \in DOMAIN srvMaps
     /\ MapGet(userMappingsCache, "alpha") = Some(ServerMapping("alpha", srvMaps["alpha"].expression))
     /\ S.cache["alpha"] = FileMapping("alpha", mapFiles["alpha"].content)
     /\ S.cache["b_1"].sourceType = "server"
     /\ <<"set", "alpha">> \in S.log

\* C3: when a source cannot be read during a full reload or a forced
\* resync, the keys cached from that source stay in the cache.
C3_UnreadableSourceKeepsEntries ==
  [][\A srvOk \in BOOLEAN, dirOk \in BOOLEAN, k \in Keys :
       (/\ ReloadUserMappingsWith(srvOk, dirOk) \/ ForcedResyncWith(srvOk, dirOk)
        /\ k \in DOMAIN userMappingsCache
        /\ \/ ~srvOk /\ userMappingsCache[k].sourceType = "server"
           \/ ~dirOk /\ userMappingsCache[k].sourceType = "file")
         => k \in DOMAIN userMappingsCache']_vars

\* C4: when no file defines a key and the reachable server defines it, a
\* focused refresh of the key leaves cache[key] equal to the server's
\* current version with sourceType server, whatever the cache and the
\* revision metadata held before.
C4_RefreshFallsBackToServer ==
  phase = "running" =>
    \A key \in Keys, nf \in {404, 410} :
      LET E == Env(TRUE, TRUE, nf)
          S == refreshUserMapping(Prov, E, key)
      IN (/\ loadFileMapping(E, key) = Null
          /\ key \notin DOMAIN jsonFiles
          /\ key \in DOMAIN loadServerMappings(E))
           => /\ MapGet(S.cache, key) = Some(ServerMapping(key, srvMaps[key].expression))
              /\ S.result = MapGet(S.cache, key)

\* C5: a mapping deleted on the server stays in the cache, unchanged, across
\* server-poll ticks (a tick never removes a key), and when no file defines
\* it a forced resync that reaches the server removes it.
C5_ServerDeletionNeedsResync ==
  phase = "running" =>
    /\ \A srvOk \in BOOLEAN, nf \in {404, 410} :
         LET S == pollServerResources(Prov, Env(srvOk, TRUE, nf), lastServerPollAt)
         IN /\ DOMAIN userMappingsCache \subseteq DOMAIN S.cache
            /\ \A k \in (DOMAIN userMappingsCache) \ (DOMAIN srvMaps) :
                 S.cache[k] = userMappingsCache[k]
    /\ \A dirOk \in BOOLEAN, k \in Keys :
         (k \notin DOMAIN srvMaps /\ loadFileMapping(Env(TRUE, TRUE, 404), k) = Null)
           => k \notin DOMAIN forcedResync(Prov, Env(TRUE, dirOk, 404)).cache

\* C5 happens: the server's entry for "alpha" is cached, the resource is
\* gone from the server, a server-poll tick has run since the deletion and
\* keeps the entry, and a forced resync removes it.
C5_Witness ==
  /\ phase = "running"
  /\ "alpha" \in DOMAIN userMappingsCache
  /\ userMappingsCache["alpha"].sourceType = "server"
  /\ "alpha" \notin DOMAIN srvMaps
  /\ "alpha" \notin DOMAIN mapFiles
  /\ now > 1 /\ lastServerPollAt = ClockRead(now)
  /\ "alpha" \in DOMAIN pollServerResources(Prov, Env(TRUE, TRUE, 404), lastServerPollAt).cache
  /\ <<"delete", "alpha">> \in forcedResync(Prov, Env(TRUE, TRUE, 404)).log

\* C6: a second whole-scope reconcile with the same target as the one just
\* applied performs no cache write and no cache delete.
C6_SecondReconcileIsNoOp ==
  \A srvOk \in BOOLEAN, dirOk \in BOOLEAN :
    LET E == Env(srvOk, dirOk, 404)
        S1 == refreshUserMappingsFromSources(Prov, E)
        S2 == refreshUserMappingsFromSources([S1 EXCEPT !.log = {}], E)
    IN S2.log = {} /\ S2.cache = S1.cache

\* C6 happens: the first reconcile writes one key and deletes another, the
\* second one does nothing.
C6_Witness ==
  \E srvOk \in BOOLEAN, dirOk \in BOOLEAN :
    LET E == Env(srvOk, dirOk, 404)
        S1 == refreshUserMappingsFromSources(Prov, E)
        S2 == refreshUserMappingsFromSources([S1 EXCEPT !.log = {}], E)
    IN /\ phase = "running"
       /\ \E k1 \in Keys, k2 \in Keys : <<"set", k1>> \in S1.log /\ <<"delete", k2>> \in S1.log
       /\ S2.log = {}

C8_TouchedTextFileIsNotRewritten ==
  phase = "running" =>
    \A srvOk \in BOOLEAN, k \in Keys :
      LET E == Env(srvOk, TRUE, 404)
          path == FileSource(k)
          S == pollFileMappings(Prov, E)
          S2 == pollFileMappings([S EXCEPT !.log = {}], E)
      IN (/\ loadFileMapping(E, k) # Null
          /\ MapGet(userMappingsCache, k) = loadFileMapping(E, k)
          /\ path \in DOMAIN filePollingState
          /\ filePollingState[path].mtimeMs # mapFiles[k].mtimeMs)
           => /\ <<"read", path>> \in S.log
              /\ <<"set", k>> \notin S.log /\ <<"delete", k>> \notin S.log
              /\ MapGet(S.cache, k) = MapGet(userMappingsCache, k)
              /\ S.fps[path] = statPath(E, path)
              /\ <<"read", path>> \notin S2.log

\* C8 happens: alpha.fume is cached, its recorded fingerprint has an older
\* modification time, and the tick replaces the fingerprint.
C8_Witness ==
  LET E == Env(TRUE, TRUE, 404)
      path == FileSource("alpha")
      S == pollFileMappings(Prov, E)
  IN /\ phase = "running"
     /\ loadFileMapping(E, "alpha") # Null
     /\ MapGet(userMappingsCache, "alpha") = loadFileMapping(E, "alpha")
     /\ path \in DOMAIN filePollingState
     /\ filePollingState[path].mtimeMs < mapFiles["alpha"].mtimeMs
     /\ filePollingState[path].size = Size(mapFiles["alpha"].content)
     /\ S.fps[path] # filePollingState[path]
     /\ S.log = {<<"read", path>>}

\* C9: a conditional read answered 304 changes nothing.  In a focused
\* refresh of a key no file defines, the cache (the key's entry included)
\* and the revision metadata stay as they are; in a server-poll tick whose
\* read of the remembered alias resource is answered 304, serverAliases,
\* the merged alias view, the alias resource id and its metadata stay as
\* they are.
C9_NotModifiedChangesNothing ==
  phase = "running" =>
    \A key \in Keys, nf \in {404, 410} :
      LET E == Env(TRUE, TRUE, nf)
          condition == IF key \in DOMAIN serverMappingsMeta THEN serverMappingsMeta[key]
                       ELSE [versionId |-> Undefined, lastUpdated |-> Undefined]
          S == refreshUserMapping(Prov, E, key)
          aliasCondition == IF aliasResourceMeta # Null THEN aliasResourceMeta[1]
                            ELSE [versionId |-> Undefined, lastUpdated |-> Undefined]
          P == pollServerResources(Prov, E, lastServerPollAt)
      IN /\ (/\ loadFileMapping(E, key) = Null
             /\ key \notin DOMAIN jsonFiles
             /\ conditionalReadServerMapping(E, key, condition).status = 304)
              => /\ S.cache = userMappingsCache
                 /\ S.meta = serverMappingsMeta
                 /\ S.log = {}
         /\ (/\ aliasResourceId # Null
             /\ conditionalReadAliases(E, aliasResourceId[1], aliasCondition).status = 304)
              => /\ P.serverAliases = serverAliases
                 /\ P.aliases = aliasesCacheWithMetadata
                 /\ P.aliasResourceId = aliasResourceId
                 /\ P.aliasResourceMeta = aliasResourceMeta

\* C9 happens: the server's entry for "alpha" is cached with its metadata,
\* no file defines "alpha", the conditional read is answered 304, and so is
\* the read of the remembered alias resource.
C9_Witness ==
  LET E == Env(TRUE, TRUE, 404)
  IN /\ phase = "running"
     /\ "alpha" \in DOMAIN serverMappingsMeta
     /\ "alpha" \in DOMAIN userMappingsCache
     /\ loadFileMapping(E, "alpha") = Null
     /\ conditionalReadServerMapping(E, "alpha", serverMappingsMeta["alpha"]).status = 304
     /\ refreshUserMapping(Prov, E, "alpha").result = Some(userMappingsCache["alpha"])
     /\ aliasResourceId # Null /\ aliasResourceMeta # Null
     /\ conditionalReadAliases(E, aliasResourceId[1], aliasResourceMeta[1]).status = 304

\* C10: in a focused refresh of a key no file defines, a conditional read
\* answered 404 or 410 removes the key from the cache together with its
\* revision metadata, the refresh returns absence (null), and no other
\* key's entry or metadata changes.
C10_RefreshRemovesDeletedKey ==
  phase = "running" =>
    \A key \in Keys, nf \in {404, 410} :
      LET E == Env(TRUE, TRUE, nf)
          condition == IF key \in DOMAIN serverMappingsMeta THEN serverMappingsMeta[key]
                       ELSE [versionId |-> Undefined, lastUpdated |-> Undefined]
          S == refreshUserMapping(Prov, E, key)
      IN (/\ loadFileMapping(E, key) = Null
          /\ key \notin DOMAIN jsonFiles
          /\ conditionalReadServerMapping(E, key, condition).status \in {404, 410})
           => /\ key \notin DOMAIN S.cache
              /\ key \notin DOMAIN S.meta
              /\ S.result = Null
              /\ \A other \in Keys \ {key} :
                   /\ MapGet(S.cache, other) = MapGet(userMappingsCache, other)
                   /\ MapGet(S.meta, other) = MapGet(serverMappingsMeta, other)

\* C10 happens: "alpha" is cached from the server with its metadata, the
\* server no longer has it, and the refresh answered 410 deletes it while
\* "b_1" stays cached.
C10_Witness ==
  LET E == Env(TRUE, TRUE, 410)
      S == refreshUserMapping(Prov, E, "alpha")
  IN /\ phase = "running"
     /\ "alpha" \in DOMAIN userMappingsCache
     /\ "alpha" \in DOMAIN serverMappingsMeta
     /\ "b_1" \in DOMAIN userMappingsCache
     /\ loadFileMapping(E, "alpha") = Null
     /\ conditionalReadServerMapping(E, "alpha", serverMappingsMeta["alpha"]).status = 410
     /\ S.log = {<<"delete", "alpha">>}
     /\ "b_1" \in DOMAIN S.cache

\* C11: when the alias resource was discovered (no id is configured) and the
\* conditional read of the remembered id answers 404 or 410, the server-poll
\* tick re-discovers: if the server then holds exactly one alias resource,
\* that one is remembered; otherwise no id and no metadata are remembered
\* and no entry of the merged view comes from the server.
C11_GoneDiscoveredAliasIsForgotten ==
  \A nf \in {404, 410} :
    (/\ phase = "running"
     /\ aliasConceptMapId = Null
     /\ aliasResourceId # Null
     /\ aliasResourceId[1] \notin DOMAIN aliasMaps)
    => LET S == pollServerAliases(Prov, Env(TRUE, TRUE, nf))
       IN IF Cardinality(DOMAIN aliasMaps) = 1
          THEN /\ S.aliasResourceId # Null
               /\ S.aliasResourceId[1] \in DOMAIN aliasMaps
               /\ S.aliasResourceMeta = Some(ResourceMeta(aliasMaps[S.aliasResourceId[1]]))
          ELSE /\ S.aliasResourceId = Null
               /\ S.aliasResourceMeta = Null
               /\ S.serverAliases = EmptyMap
               /\ \A key \in DOMAIN S.aliases : S.aliases[key].sourceType # "server"

\* a discovered alias resource whose aliases are in the merged view has
\* been deleted and the server holds no other one
C11_Witness ==
  /\ phase = "running"
  /\ aliasConceptMapId = Null
  /\ aliasResourceId = Some("cm1")
  /\ aliasMaps = EmptyMap
  /\ \E key \in DOMAIN aliasesCacheWithMetadata :
       aliasesCacheWithMetadata[key].sourceType = "server"
  /\ \A key \in DOMAIN pollServerAliases(Prov, Env(TRUE, TRUE, 404)).aliases :
       pollServerAliases(Prov, Env(TRUE, TRUE, 404)).aliases[key].sourceType # "server"

\* getAliasResourceId()
getAliasResourceId(S) == S.aliasResourceId

\* C12: when the alias id is configured and the conditional read of the
\* remembered id answers 404 or 410, the provider still remembers the
\* configured id after the server-poll tick.
C12_PinnedAliasIdIsKept ==
  \A nf \in {404, 410} :
    (/\ phase = "running"
     /\ aliasConceptMapId # Null
     /\ aliasResourceId = aliasConceptMapId
     /\ aliasResourceId[1] \notin DOMAIN aliasMaps)
    => getAliasResourceId(pollServerAliases(Prov, Env(TRUE, TRUE, nf))) = aliasConceptMapId

\* C13: after an alias refresh the merged view holds, for every name, the
\* value and source type of the highest source that defines it (valid file
\* aliases over valid server aliases over built-in aliases), and holds no
\* name that no source defines.
C13_AliasPrecedence ==
  \A srvOk \in BOOLEAN :
    LET E == Env(srvOk, TRUE, 404)
        S == refreshAliasesFromSources(Prov, E)
        file == loadFileAliases(E)
        server == filterInvalidAliases(loadAliasesWithMetadata(E).aliases)
    IN /\ DOMAIN S.aliases = (DOMAIN file) \cup (DOMAIN server) \cup (DOMAIN builtInAliases)
       /\ \A key \in DOMAIN S.aliases :
            IF key \in DOMAIN file
            THEN S.aliases[key].value = file[key] /\ S.aliases[key].sourceType = "file"
            ELSE IF key \in DOMAIN server
            THEN S.aliases[key].value = server[key] /\ S.aliases[key].sourceType = "server"
            ELSE /\ S.aliases[key].value = builtInAliases[key]
                 /\ S.aliases[key].sourceType = "builtIn"

\* a refreshed view in which k1 is defined by the file and by the server with
\* different values, k2 by the server only, and loinc by the server and
\* built in
C13_Witness ==
  /\ phase = "running"
  /\ aliasesCacheWithMetadata = refreshAliasesFromSources(Prov, Env(TRUE, TRUE, 404)).aliases
  /\ "k1" \in DOMAIN serverAliases
  /\ "k1" \in DOMAIN fileAliases
  /\ serverAliases["k1"] # fileAliases["k1"]
  /\ aliasesCacheWithMetadata["k1"].sourceType = "file"
  /\ "k2" \in DOMAIN aliasesCacheWithMetadata
  /\ aliasesCacheWithMetadata["k2"].sourceType = "server"
  /\ aliasesCacheWithMetadata["loinc"].sourceType = "server"

\* C14: an alias refresh whose merged result has the same names, values,
\* source types and source locators as the cached view does not write the
\* view; otherwise the view after the refresh is the complete merged result,
\* written once.
C14_AliasViewReplacedOnlyIfChanged ==
  \A srvOk \in BOOLEAN :
    LET S == refreshAliasesFromSources(Prov, Env(srvOk, TRUE, 404))
        merged == buildAliasesCache(S)
    IN IF merged = aliasesCacheWithMetadata
       THEN S.aliases = aliasesCacheWithMetadata /\ <<"aliases", "ALL">> \notin S.log
       ELSE S.aliases = merged /\ <<"aliases", "ALL">> \in S.log

\* a running state whose view holds server aliases: a refresh that reaches
\* the server finds the view up to date, one that does not reach it
\* replaces the view
C14_Witness ==
  /\ phase = "running"
  /\ \E key \in DOMAIN aliasesCacheWithMetadata :
       aliasesCacheWithMetadata[key].sourceType = "server"
  /\ <<"aliases", "ALL">> \notin refreshAliasesFromSources(Prov, Env(TRUE, TRUE, 404)).log
  /\ <<"aliases", "ALL">> \in refreshAliasesFromSources(Prov, Env(FALSE, TRUE, 404)).log

\* C18: when aliases.json has changed on disk and its new content is not
\* valid JSON, the file-poll tick that observes the change leaves the
\* file-sourced aliases and their entries of the merged view as they were.
C18_InvalidAliasFileKeepsFileAliases ==
  \A srvOk \in BOOLEAN :
    (/\ phase = "running"
     /\ aliasFile # Null
     /\ AliasFileParse(aliasFile[1].text) = Null
     /\ MapGet(filePollingState, AliasesPath) # Some(statPath(Env(srvOk, TRUE, 404), AliasesPath)))
    => LET S == pollFileMappings(Prov, Env(srvOk, TRUE, 404))
       IN /\ S.fileAliases = fileAliases
          /\ \A key \in DOMAIN fileAliases :
               /\ key \in DOMAIN S.aliases
               /\ S.aliases[key] = aliasesCacheWithMetadata[key]

C20_UnreadableServerKeepsServerAliases ==
  phase = "running"
  => LET E == Env(FALSE, TRUE, 404)
         Kept(S) == /\ S.serverAliases = serverAliases
                    /\ S.aliasResourceId = aliasResourceId
     IN /\ Kept(refreshAliasesFromSources(Prov, E))
        /\ Kept(pollFileMappings(Prov, E))
        /\ Kept(pollServerResources(Prov, E, lastServerPollAt))
        /\ Kept(forcedResync(Prov, E))

\* C15: each driver has at most one tick body in flight, and its flag is set
\* exactly while that body runs: a timer that fires while the flag is set
\* starts nothing, and the flag is clear again once the body has ended,
\* normally or by an error.
C15_AtMostOneTickInFlight ==
  \A d \in Drivers :
    /\ inFlight[d] <= 1
    /\ InProgress(d) <=> inFlight[d] = 1

\* two drivers run a tick each, and the timer of a running driver is set, so
\* it can fire again
C15_Witness ==
  /\ phase = "running"
  /\ inFlight["file"] = 1
  /\ filePollInProgress
  /\ filePollingTimer # Null
  /\ inFlight["server"] = 1
  /\ serverPollInProgress
  /\ ~resyncInProgress

AllTimersStopped ==
  /\ filePollingTimer = Null
  /\ serverPollingTimer = Null
  /\ forcedResyncTimer = Null

\* the provider's caches as one record, without the bookkeeping of a call
Caches(S) ==
  [cache |-> S.cache, raw |-> S.raw, meta |-> S.meta, fps |-> S.fps,
   serverAliases |-> S.serverAliases, fileAliases |-> S.fileAliases,
   aliasResourceId |-> S.aliasResourceId, aliasResourceMeta |-> S.aliasResourceMeta,
   aliases |-> S.aliases]

\* C16: a step that cancels a timer cancels all three and touches neither
\* the caches nor the running ticks; a tick begins only on a driver whose
\* timer is set, so none begins while tracking is stopped; and a tick that
\* ends while tracking is stopped ends as it would have otherwise: its flag
\* is cleared and the caches hold what its body wrote, or what they held if
\* it ended by an error.
C16_StopCancelsTimersKeepsRunningTicks ==
  [][/\ (\E d \in Drivers : TimerOf(d) # Null /\ TimerOf(d)' = Null)
        => /\ AllTimersStopped'
           /\ UNCHANGED <<mappingVars, filePollingState, lastServerPollAt, aliasVars, tickVars>>
     /\ \A d \in Drivers : inFlight'[d] > inFlight[d] => TimerOf(d) # Null
     /\ \A d \in Drivers :
          (AllTimersStopped /\ inFlight'[d] < inFlight[d])
          => /\ ~InProgress(d)'
             /\ AllTimersStopped'
             /\ \/ Caches(Prov)' = Caches(Prov)
                \/ \E srvOk \in BOOLEAN, dirOk \in BOOLEAN :
                     Caches(Prov)' =
                       Caches(tickBody(d, Prov, Env(srvOk, dirOk, 404), lastServerPollAt))]_vars

\* tracking has been stopped while a forced resync was running, and the
\* resync is about to fill caches that are still empty
C16_Witness ==
  /\ phase = "running"
  /\ AllTimersStopped
  /\ inFlight["resync"] = 1
  /\ resyncInProgress
  /\ userMappingsCache = EmptyMap
  /\ Caches(tickBody("resync", Prov, Env(TRUE, TRUE, 404), lastServerPollAt)).cache # EmptyMap

\* C17: startAutomaticChangeTracking gives a driver a timer exactly when its
\* interval (the configured one, else 5000 ms for the file poller, 30000 ms
\* for the server poller, 3600000 ms for the forced resync) is positive and,
\* for the file poller, a mappings folder is configured and, for the server
\* poller, a client is configured; the timer runs at that interval; each
\* driver is decided by its own settings only; and a driver without a timer
\* has no tick in flight.
C17_TimersFollowConfiguration ==
  LET T == startAutomaticChangeTracking(config, Timers)
      fileMs == IF config.filePollingIntervalMs = Null THEN 5000
                ELSE config.filePollingIntervalMs[1]
      serverMs == IF config.serverPollingIntervalMs = Null THEN 30000
                  ELSE config.serverPollingIntervalMs[1]
      resyncMs == IF config.forcedResyncIntervalMs = Null THEN 3600000
                  ELSE config.forcedResyncIntervalMs[1]
      fileOn == fileMs > 0 /\ config.mappingsFolder
      serverOn == serverMs > 0 /\ config.fhirClient
      resyncOn == resyncMs > 0
  IN /\ T.filePollingTimer = IF fileOn THEN Some(fileMs) ELSE Null
     /\ T.serverPollingTimer = IF serverOn THEN Some(serverMs) ELSE Null
     /\ T.forcedResyncTimer = IF resyncOn THEN Some(resyncMs) ELSE Null
     /\ filePollingTimer \in {Null, T.filePollingTimer}
     /\ serverPollingTimer \in {Null, T.serverPollingTimer}
     /\ forcedResyncTimer \in {Null, T.forcedResyncTimer}
     /\ ~fileOn => inFlight["file"] = 0 /\ ~filePollInProgress
     /\ ~serverOn => inFlight["server"] = 0 /\ ~serverPollInProgress
     /\ ~resyncOn => inFlight["resync"] = 0 /\ ~resyncInProgress

\* the file poller is disabled by an interval of 0, the server poller runs at
\* its default interval and has a tick in flight, the forced resync runs at
\* a configured interval
C17_Witness ==
  /\ phase = "running"
  /\ config.filePollingIntervalMs = Some(0)
  /\ config.mappingsFolder
  /\ filePollingTimer = Null
  /\ config.serverPollingIntervalMs = Null
  /\ serverPollingTimer = Some(30000)
  /\ inFlight["server"] = 1
  /\ config.forcedResyncIntervalMs = Some(1000)
  /\ forcedResyncTimer = Some(1000)

\* C21: when no alias id is configured and the reachable server holds more
\* than one alias ConceptMap, a full load (initialize or resync) and an
\* alias reload leave no server alias and no remembered id, and the merged
\* view is the built-in aliases overlaid by the valid file aliases.
C21_SeveralAliasResourcesGiveNone ==
  (aliasConceptMapId = Null /\ Cardinality(DOMAIN aliasMaps) > 1)
  => \A dirOk \in BOOLEAN :
       LET E == Env(TRUE, dirOk, 404)
           file == loadFileAliases(E)
           Served(S) ==
             /\ S.serverAliases = EmptyMap
             /\ S.aliasResourceId = Null
             /\ S.aliasResourceMeta = Null
             /\ DOMAIN S.aliases = (DOMAIN file) \cup (DOMAIN builtInAliases)
             /\ \A key \in DOMAIN S.aliases :
                  IF key \in DOMAIN file
                  THEN S.aliases[key].value = file[key] /\ S.aliases[key].sourceType = "file"
                  ELSE /\ S.aliases[key].value = builtInAliases[key]
                       /\ S.aliases[key].sourceType = "builtIn"
       IN Served(forcedResync(Prov, E)) /\ Served(refreshAliasesFromSources(Prov, E))

\* the provider has been initialized while the server held two alias
\* ConceptMaps: it runs, serves the file alias and the built-in alias, and
\* remembers no id
C21_Witness ==
  /\ phase = "running"
  /\ aliasConceptMapId = Null
  /\ DOMAIN aliasMaps = {"cm1", "cm2"}
  /\ fsClock = 1
  /\ aliasResourceId = Null
  /\ serverAliases = EmptyMap
  /\ "k1" \in DOMAIN aliasesCacheWithMetadata
  /\ aliasesCacheWithMetadata["k1"].sourceType = "file"
  /\ aliasesCacheWithMetadata["loinc"].sourceType = "builtIn"
  /\ aliasesCacheWithMetadata = forcedResync(Prov, Env(TRUE, TRUE, 404)).aliases

\* C22: when the listing of the mappings folder fails during a file-poll
\* tick, the tick's promise is not rejected and the tick leaves the caches
\* and the fingerprints as they were.
C22_FailedFilePollIsContained ==
  \A srvOk \in BOOLEAN :
    (phase = "running" /\ filePollingTimer # Null)
    => LET E == Env(srvOk, FALSE, 404)
       IN /\ ~tickRejects("file", E)
          /\ Caches(tickBody("file", Prov, E, lastServerPollAt)) = Caches(Prov)

\* C23: a full reconciliation (reload or forced resync) never deletes a
\* cached key that the new target still has: a key whose entry is the same
\* in the target is not written at all, and a key whose entry differs is
\* written by a single set and holds the target's entry afterwards.
C23_ReconcileNeverClears ==
  \A srvOk \in BOOLEAN, dirOk \in BOOLEAN :
    LET E == Env(srvOk, dirOk, 404)
        target == loadMappings(E)
        Kept(S) ==
          \A key \in (DOMAIN userMappingsCache) \cap (DOMAIN target) :
            /\ <<"delete", key>> \notin S.log
            /\ key \in DOMAIN S.cache
            /\ S.cache[key] = target[key]
            /\ userMappingsCache[key] = target[key] => <<"set", key>> \notin S.log
    IN /\ Kept(refreshUserMappingsFromSources(Prov, E))
       /\ Kept(forcedResync(Prov, E))

\* the cache holds one key whose entry is the same in the target and one
\* whose entry differs from the target's: the reconciliation writes the
\* second only
C23_Witness ==
  /\ phase = "running"
  /\ DOMAIN userMappingsCache = {"alpha", "b_1"}
  /\ LET S == refreshUserMappingsFromSources(Prov, Env(TRUE, TRUE, 404))
     IN S.log = {<<"set", "alpha">>}

\* C24: every entry of the mapping cache holds an expression that some
\* source held, and a key that a readable source defines is removed from
\* the cache by no call of a public operation.
C24_CacheHoldsOnlySourceValues ==
  /\ \A key \in DOMAIN userMappingsCache : userMappingsCache[key].expression \in Contents
  /\ \A key \in (DOMAIN userMappingsCache) \cap (DOMAIN loadMappings(Env(TRUE, TRUE, 404))) :
       key \in DOMAIN refreshUserMappingProvided(Prov, key, Null).cache

\* C25: after a caller has changed a value it got from getAliases,
\* getAliasesWithMetadata, getUserMappings or getUserMapping, each of the
\* four reads returns what it returned before the change.
C25_ReturnedValuesAreCopies ==
  phase = "running"
  => \A c \in CallerContents :
       /\ \A key \in DOMAIN aliasesCacheWithMetadata :
            /\ getAliases(assignAlias(Prov, getAliases(Prov), key, c)).value
                 = getAliases(Prov).value
            /\ getAliasesWithMetadata(
                 assignAlias(Prov, getAliasesWithMetadata(Prov), key, c)).value
                 = getAliasesWithMetadata(Prov).value
       /\ \A key \in DOMAIN userMappingsCache :
            /\ getUserMappings(assignExpression(Prov, getUserMappings(Prov), key, c)).value
                 = getUserMappings(Prov).value
            /\ getUserMapping(assignExpression(Prov, getUserMapping(Prov, key), key, c), key).value
                 = getUserMapping(Prov, key).value

\* C26: getPackageMapping(identifier) answers with the URL resolution when it
\* yields a FUME mapping with package identity, otherwise with the id
\* resolution, otherwise with the first name match, and with null when none
\* of the three yields one; a step that fails yields nothing and the later
\* steps are still tried.
C26_UrlThenIdThenName ==
  \A identifier \in Identifiers, fails \in SUBSET LookupSteps :
    LET Usable(m) == m.fume /\ m.expression # Null /\ m.packageId # Null
        Selected(field) ==
          {i \in 1..Len(packages) : packages[i][field] = identifier}
        Only(field) == CHOOSE i \in Selected(field) : TRUE
        First(field) == CHOOSE i \in Selected(field) : \A j \in Selected(field) : i <= j
        Resolves(field) ==
          /\ field \notin fails
          /\ Cardinality(Selected(field)) = 1
          /\ Usable(packages[Only(field)])
        NameYields ==
          /\ "name" \notin fails
          /\ Selected("name") # {}
          /\ Usable(packages[First("name")])
        Answer(i) == Some([id |-> packages[i].id, expression |-> packages[i].expression[1],
                           packageId |-> packages[i].packageId[1],
                           name |-> packages[i].name, url |-> packages[i].url])
        result == getPackageMapping(packages, identifier, fails)
    IN /\ Resolves("url") => result = Answer(Only("url"))
       /\ ~Resolves("url") /\ Resolves("id") => result = Answer(Only("id"))
       /\ ~Resolves("url") /\ ~Resolves("id") /\ NameYields
            => result = Answer(First("name"))
       /\ ~Resolves("url") /\ ~Resolves("id") /\ ~NameYields => result = Null

\* a call whose URL resolution failed although a map has that URL, and which
\* was answered by the id resolution with another map than the URL's
C26_Witness ==
  /\ packageMappingCall # Null
  /\ "url" \in packageMappingCall[1].fails
  /\ packageMappingCall[1].result # Null
  /\ packageMappingCall[1].result[1].id = packageMappingCall[1].identifier
  /\ packageMappingCall[1].result[1].url # packageMappingCall[1].identifier
  /\ \E i \in 1..Len(packages) : packages[i].url = packageMappingCall[1].identifier

\* C27: a configuration whose fileExtension is json or .json, in any letter
\* case and with whitespace around it, is rejected by the constructor: no
\* engine instance exists afterwards.
C27_JsonExtensionIsRejected ==
  (/\ phase # "unconstructed"
   /\ config.fileExtension # Null
   /\ config.fileExtension[1] \in
        {lead \o dot \o word \o trail :
           lead \in Paddings, dot \in Dots, word \in JsonSpellings, trail \in Paddings})
    => phase = "rejected"

\* the constructor rejected " .JsOn" followed by a tab and a space
C27_Witness ==
  /\ phase = "rejected"
  /\ config.fileExtension = Some(<<" ", ".", "J", "s", "O", "n", "\t", " ">>)

\* C28: alias conversion round-trips: the alias object read back from the
\* ConceptMap that aliasObjectToConceptMap built equals the alias object
\* that was converted.
C28_AliasConversionRoundTrips ==
  convertedAliases # Null => convertedAliases[1] = aliasObject

\* C29: the timestamp that bounds the server-poll mapping search advances
\* only after a tick whose search succeeded: a step that is a server-poll
\* tick with a failed search, and that no tick with a successful search
\* could have taken, leaves lastServerPollAt as it was, so that the next
\* search still covers every change made since the last successful poll.
C29_TimestampAdvancesOnlyOnSuccess ==
  [][\A nf \in {404, 410} :
       (/\ PollServerResourcesWith(FALSE, nf)
        /\ ~(\E status \in {404, 410} : PollServerResourcesWith(TRUE, status)))
         => lastServerPollAt' = lastServerPollAt]_vars

\* C30: when a forced resync overlaps a file-poll tick or a focused refresh
\* on the same key, its reconciliation does not replace a cached entry by
\* content read earlier: where the cache holds the file's current content
\* and the resync read the file before, applying what the resync read
\* leaves the entry as it is.
C30_ReconcileKeepsNewerContent ==
  pendingMappings # Null =>
    LET mappings == pendingMappings[1].mappings
        S == applyMappingsIncrementally(Prov, mappings, pendingMappings[1].jsonRawByKey)
    IN \A k \in FileKeys :
         (/\ k \in DOMAIN mapFiles
          /\ MapGet(userMappingsCache, k) = Some(FileMapping(k, mapFiles[k].content))
          /\ k \in DOMAIN mappings
          /\ mappings[k].sourceType = "file")
           => MapGet(S.cache, k) = Some(userMappingsCache[k])

\* C31: a deletion of a tracked mapping file that the file poller observes
\* in a tick during which the server cannot be read is not forgotten: after
\* that tick, a file-poll tick with the server reachable removes the stale
\* file-sourced entry or replaces it by the server's version.
C31_ObservedDeletionIsRetried ==
  phase = "running" =>
    \A k \in FileKeys :
      (/\ FileSource(k) \in DOMAIN filePollingState
       /\ k \notin DOMAIN mapFiles
       /\ k \in DOMAIN userMappingsCache
       /\ userMappingsCache[k].sourceType = "file")
        => LET observed == pollFileMappings(Prov, Env(FALSE, TRUE, 404))
               later == pollFileMappings(observed, Env(TRUE, TRUE, 404))
           IN \/ k \notin DOMAIN later.cache
              \/ later.cache[k].sourceType = "server"

\* the mapping cache and the alias view equal the precedence-resolved view
\* of the sources: a valid mapping file over a valid StructureMap, a valid
\* file alias over a valid server alias over a built-in alias
Converged ==
  LET E == Env(TRUE, TRUE, 404)
      files == {k \in DOMAIN mapFiles : isValidFileMappingKey(k)}
      resources == {k \in DOMAIN srvMaps : isValidKey(k)}
      file == loadFileAliases(E)
      server == filterInvalidAliases(loadAliasesWithMetadata(E).aliases)
  IN /\ userMappingsCache =
          [k \in files \cup resources |->
             IF k \in files THEN FileMapping(k, mapFiles[k].content)
             ELSE ServerMapping(k, srvMaps[k].expression)]
     /\ DOMAIN aliasesCacheWithMetadata =
          (DOMAIN file) \cup (DOMAIN server) \cup (DOMAIN builtInAliases)
     /\ \A key \in DOMAIN aliasesCacheWithMetadata :
          aliasesCacheWithMetadata[key].value =
            IF key \in DOMAIN file THEN file[key]
            ELSE IF key \in DOMAIN server THEN server[key]
            ELSE builtInAliases[key]

\* C32: once the sources have stopped changing and stay reachable, with
\* every driver ticking again and again, the mapping cache and the alias
\* view eventually equal the precedence-resolved view of the sources and
\* stay equal to it.
C32_EventuallyConverged ==
  <>[]((phase = "running" /\ SourcesSettled) => Converged)

\* the sources have stopped changing with a StructureMap deleted on the
\* server and a mapping file rewritten, and the running provider's caches
\* equal the resolved view
C32_Witness ==
  /\ phase = "running"
  /\ SourcesSettled
  /\ Converged
  /\ "alpha" \notin DOMAIN srvMaps
  /\ "alpha" \in DOMAIN mapFiles
  /\ mapFiles["alpha"].content = "Y"

\* C33: a single-key reconciliation of key k (a focused refresh of k,
\* applying one mapping for k, or the file poller handling the one file of
\* k) leaves the cache entry, the revision metadata and the raw serialized
\* form of every other key as they were.
C33_SingleKeyFrame ==
  LET Same(S, other) ==
        /\ MapGet(S.cache, other) = MapGet(userMappingsCache, other)
        /\ MapGet(S.meta, other) = MapGet(serverMappingsMeta, other)
        /\ MapGet(S.raw, other) = MapGet(jsonMappingRawCache, other)
  IN \A k \in Keys, other \in Keys :
       other # k =>
         /\ \A srvOk \in BOOLEAN, dirOk \in BOOLEAN, nf \in {404, 410} :
              LET E == Env(srvOk, dirOk, nf)
              IN /\ Same(refreshUserMapping(Prov, E, k), other)
                 /\ FileSource(k) \in trackedPaths(E)
                      => Same(pollOneFile(Prov, E, FileSource(k)), other)
                 /\ FileSource(k) \in DOMAIN filePollingState
                      => Same(pollOneDeletion(Prov, E, FileSource(k)), other)
         /\ \A c \in Contents :
              /\ Same(applySingleMappingUpdate(Prov, k, FileMapping(k, c), Null), other)
              /\ Same(applySingleMappingUpdate(Prov, k, ServerMapping(k, c), Null), other)

\* alpha and b_1 are cached, b_1 with revision metadata; alpha is gone from
\* both sources, and a focused refresh of alpha removes it and its metadata
C33_Witness ==
  /\ phase = "running"
  /\ "alpha" \in DOMAIN userMappingsCache
  /\ "alpha" \in DOMAIN serverMappingsMeta
  /\ "b_1" \in DOMAIN userMappingsCache
  /\ "b_1" \in DOMAIN serverMappingsMeta
  /\ "alpha" \notin DOMAIN mapFiles
  /\ "alpha" \notin DOMAIN srvMaps
  /\ LET S == refreshUserMapping(Prov, Env(TRUE, TRUE, 404), "alpha")
     IN /\ "alpha" \notin DOMAIN S.cache
        /\ "alpha" \notin DOMAIN S.meta
        /\ S.cache["b_1"] = userMappingsCache["b_1"]

C35_MetadataDescribesCachedEntry ==
  \A k \in DOMAIN serverMappingsMeta :
    /\ k \in DOMAIN userMappingsCache
    /\ userMappingsCache[k].sourceType = "server"
    /\ (k \in DOMAIN srvMaps /\ srvMaps[k].versionId = serverMappingsMeta[k].versionId)
         => userMappingsCache[k] = ServerMapping(k, srvMaps[k].expression)

\* C36: when a forced resync (or initialize) has read a mapping file and then
\* primes that file's fingerprint, the file-poll tick that follows leaves the
\* cache with the file's current content: a change made to the file between
\* the read and the priming is detected by that tick.
C36_ChangeBetweenReadAndPrimingIsDetected ==
  pendingMappings # Null =>
    LET E == Env(TRUE, TRUE, 404)
        mappings == pendingMappings[1].mappings
        S == applyMappingsIncrementally(Prov, mappings, pendingMappings[1].jsonRawByKey)
        primed == primeFilePollingState(refreshAliasesFromSources(S, E), E)
        afterTick == pollFileMappings(primed, E)
    IN \A k \in DOMAIN mapFiles :
         (/\ FileSource(k) \in DOMAIN primed.fps
          /\ k \in DOMAIN mappings
          /\ mappings[k].sourceType = "file")
           => /\ k \in DOMAIN afterTick.cache
              /\ afterTick.cache[k] = FileMapping(k, mapFiles[k].content)

\* C37: initialize() starts the timers only after the mapping load, the alias
\* load and the fingerprint priming: while any of the three has not completed
\* no timer exists, so every tick runs in the running phase.
C37_TimersStartAfterLoads ==
  \A d \in Drivers : TimerOf(d) # Null => phase = "running"

\* initialize() has completed with files and server mappings loaded, the
\* fingerprints primed and the three timers started
C37_Witness ==
  /\ phase = "running"
  /\ \A d \in Drivers : TimerOf(d) # Null
  /\ "alpha" \in DOMAIN userMappingsCache
  /\ FileSource("alpha") \in DOMAIN filePollingState
  /\ lastServerPollAt # Undefined

\* C38: after any sequence of initialize, startAutomaticChangeTracking and
\* stopAutomaticChangeTracking calls every driver has at most one active
\* interval, the one its timer field refers to, and starting tracking once
\* more leaves at most one per driver.
C38_AtMostOneTimerPerDriver ==
  LET T == startAutomaticChangeTracking(config, Timers)
  IN \A d \in Drivers :
       /\ activeIntervals[d] = IF TimerOf(d) # Null THEN 1 ELSE 0
       /\ T.activeIntervals[d] = IF HandleOf(T, d) # Null THEN 1 ELSE 0

\* the three timers run and tracking is about to be started again
C38_Witness ==
  /\ phase = "running"
  /\ \A d \in Drivers : TimerOf(d) # Null /\ activeIntervals[d] = 1
  /\ \A d \in Drivers : HandleOf(startAutomaticChangeTracking(config, Timers), d) # Null

\* C39: every entry of the mapping cache is stored under its own key and
\* that key satisfies the rule of the entry's source: the server rule for a
\* server-sourced entry, the file rule for a file-sourced one.
C39_CachedKeysAreValid ==
  \A k \in DOMAIN userMappingsCache :
    LET mapping == userMappingsCache[k]
    IN /\ mapping.key = k
       /\ mapping.sourceType = "server" => k \in {"alpha", "b_1"}
       /\ mapping.sourceType = "file" => k = "alpha"

\* files and StructureMaps of all three names exist, "b_1" is cached from
\* the server although b_1.fume exists, "alpha" is cached from its file and
\* "c-2" is not cached
C39_Witness ==
  /\ phase = "running"
  /\ DOMAIN mapFiles = Names
  /\ DOMAIN srvMaps = Names
  /\ DOMAIN userMappingsCache = {"alpha", "b_1"}
  /\ userMappingsCache["b_1"].sourceType = "server"
  /\ userMappingsCache["alpha"].sourceType = "file"

====
